---- MODULE Spec2Model ----
(***************************************************************************)
(* State-machine model of the e-commerce event simulator (src/app.py,      *)
(* src/simulate_store.py): the server's telemetry (EVENT_LOG, COUNTS,      *)
(* DEDUP), the dispatch handlers that feed it, the browser's sendPixel     *)
(* with its discrepancy helpers, and the funnel runs.                      *)
(*                                                                         *)
(* Event ids are strings in the source.  Here a string is a sequence of    *)
(* tokens, so that appending a suffix is a real concatenation:             *)
(* <<"evt_","1">> \o <<"_px">>.  The empty string is << >> and Python's    *)
(* None / JS null is the one-token sequence None.                          *)
(***************************************************************************)
EXTENDS Integers, Sequences, FiniteSets, TLC

\* ------------------------------------------------------------------ bounds
\* Outcomes logged in one behaviour (the clock `now` ticks once per entry).
MaxEvents == 3
\* Browser dispatch attempts (sendPixel calls) in one behaviour.
MaxAttempts == 6
\* Largest value of drop_pixel_every_n / duplicate_event_id_n explored.
MaxN == 3
\* Funnel runs per behaviour.
MaxRuns == 2
\* Entries logged past a full EVENT_LOG.
MaxOverflow == 3

\* Requests to /ingest that log an entry, in the payload's specification.
MaxIngests == 1

\* Runs of each kind (auto stream, scenario, script) that reach the checkout.
MaxCheckouts == 1

\* Lines of a cart handed to the margin computation.
MaxLines == 2

\* ------------------------------------------------------------------ values
None == <<"None">>
EmptyStr == << >>
\* Python truthiness of `entry.get("event_id") or ""`.
Truthy(s) == s # None /\ s # EmptyStr

\* rid(): 'evt_' + random + time, a fresh id per call (the n-th call here).
rid(n) == <<"evt_", ToString(n)>>
\* _uid(): str(uuid.uuid4()), a fresh id per call (the n-th call here).
_uid(n) == <<"uuid_", ToString(n)>>

Channels == {"pixel", "capi", "webhook", "ga4"}
\* Funnel stages in emission order, and the CAPI event name of each.
FunnelOrder == <<"page_view", "product_view", "add_to_cart", "begin_checkout", "purchase">>
CapiName(et) ==
  CASE et = "page_view" -> "PageView"
    [] et = "product_view" -> "ViewContent"
    [] et = "add_to_cart" -> "AddToCart"
    [] et = "begin_checkout" -> "InitiateCheckout"
    [] et = "purchase" -> "Purchase"
    [] et = "return_initiated" -> "ReturnInitiated"
    [] OTHER -> ""
EventNames == {"PageView", "ViewContent", "AddToCart", "InitiateCheckout",
               "Purchase", "ReturnInitiated", ""}
\* The names map_sim_event_to_ga4 gives its events.
Ga4Names == {"view_item", "add_to_cart", "begin_checkout", "purchase"}

EVENT_LOG_MAX == 800

VARIABLES
  EVENT_LOG,   \* deque(maxlen=EVENT_LOG_MAX), newest first
  COUNTS,      \* defaultdict(int): sent_<ch>, sent_<ch>_<name>, errors
  DEDUP,       \* pixel_ids, capi_ids, matched, pixel_only, capi_only
  CONFIG,      \* the runtime configuration (the keys the handlers read)
  now,         \* the wall clock read by now_iso(): one tick per entry
  pending,     \* per server thread: sink entries _send_one_through_sinks still has to log
  dom,         \* browser: the form fields sendPixel reads, and ENABLE_PIXEL
  win,         \* browser: window.__pxCount, __dupeIdx, __lastPxEid, and rid()'s call count
  px,          \* browser: the sendPixel call in progress (awaiting its mirror fetch)
  run,         \* the funnel run in progress in app.py's auto thread
  sim,         \* the funnel run in progress in simulate_store.py
  uid_n,       \* calls of _uid() / uid() so far
  env,         \* process environment: capi_ready = (CAPI_URL and ACCESS_TOKEN)
  sched,       \* _stop_evt, _auto_thread, the _auto_loop threads, auto_stop in progress
  http,        \* the response of the last control / configuration request
  cfgw         \* CONFIG_LOCK, the writer holding it, and the snapshots taken

vars == <<EVENT_LOG, COUNTS, DEDUP, CONFIG, now, pending, dom, win, px, run, sim, uid_n, env,
          sched, http, cfgw>>
telemetry == <<EVENT_LOG, COUNTS, DEDUP, now>>
browser == <<dom, win, px>>
control == <<sched, http, cfgw>>

\* ------------------------------------------------------------------ telemetry
\* deque.appendleft on a deque(maxlen=EVENT_LOG_MAX): the new entry goes to the
\* front; a full deque discards the entry at the other end (the oldest).
\* (appendleft_dropnewest is the deque that discards at the wrong end.)
appendleft_dropnewest(log, entry) ==
  IF Len(log) >= EVENT_LOG_MAX THEN <<entry>> \o Tail(log) ELSE <<entry>> \o log
appendleft(log, entry) ==
  IF Len(log) >= EVENT_LOG_MAX
  THEN <<entry>> \o SubSeq(log, 1, EVENT_LOG_MAX - 1)
  ELSE <<entry>> \o log

\* _log_event, lines 139-148: the seen-id sets and the derived counts.
DedupRecount(p, c) ==
  LET common == p \cap c
  IN [pixel_ids |-> p, capi_ids |-> c,
      matched |-> Cardinality(common),
      pixel_only |-> Cardinality(p \ common),
      capi_only |-> Cardinality(c \ common)]

\* DedupAfter is the code's update.  The four variants before it each change one
\* line of it: the counts are not recomputed; the counts are recomputed before
\* the insertion; the id goes into both sets; the truthiness test is skipped.
DedupAfter_norecount(d, ch, event_id) ==
  LET eid == IF event_id = None THEN EmptyStr ELSE event_id
  IN IF eid # EmptyStr
     THEN [d EXCEPT !.pixel_ids = IF ch = "pixel" THEN @ \cup {eid} ELSE @,
                    !.capi_ids = IF ch = "capi" THEN @ \cup {eid} ELSE @]
     ELSE d
DedupAfter_stale(d, ch, event_id) ==
  LET eid == IF event_id = None THEN EmptyStr ELSE event_id
  IN IF eid # EmptyStr
     THEN [DedupRecount(d.pixel_ids, d.capi_ids) EXCEPT
             !.pixel_ids = IF ch = "pixel" THEN @ \cup {eid} ELSE @,
             !.capi_ids = IF ch = "capi" THEN @ \cup {eid} ELSE @]
     ELSE d
DedupAfter_bothsets(d, ch, event_id) ==
  LET eid == IF event_id = None THEN EmptyStr ELSE event_id
  IN IF eid # EmptyStr
     THEN DedupRecount(d.pixel_ids \cup {eid}, d.capi_ids \cup {eid})
     ELSE d
DedupAfter_nullid(d, ch, event_id) ==
  LET p == IF ch = "pixel" THEN d.pixel_ids \cup {event_id} ELSE d.pixel_ids
      c == IF ch = "capi" THEN d.capi_ids \cup {event_id} ELSE d.capi_ids
  IN DedupRecount(p, c)
DedupAfter(d, ch, event_id) ==
  LET eid == IF event_id = None THEN EmptyStr ELSE event_id
  IN IF eid # EmptyStr
     THEN LET p == IF ch = "pixel" THEN d.pixel_ids \cup {eid} ELSE d.pixel_ids
              c == IF ch = "capi" THEN d.capi_ids \cup {eid} ELSE d.capi_ids
          IN DedupRecount(p, c)
     ELSE d

CountsAfter(cnt, ch, name, ok) ==
  [cnt EXCEPT !.sent[ch] = @ + 1,
              !.sent_name[<<ch, name>>] = @ + 1,
              !.errors = IF ok THEN @ ELSE @ + 1]

\* An Event Log entry.  intended/sent payloads are not part of the state yet.
Entry(ts, ch, name, ok, event_id, response) ==
  [ts |-> ts, channel |-> ch, event_name |-> name, ok |-> ok,
   event_id |-> event_id, response |-> response]

\* The bound on requests: the first MaxEvents entries of a process, or the
\* entries logged once EVENT_LOG is about to fill up.
CanRequest ==
  \/ now < MaxEvents
  \/ now >= EVENT_LOG_MAX - 1
\* The bound on the clock.
CanLog == now < EVENT_LOG_MAX + MaxOverflow

\* _log_event(entry), under METRICS_LOCK: one atomic step.
_log_event(ch, name, ok, event_id, response) ==
  /\ CanLog
  /\ now' = now + 1
  /\ EVENT_LOG' = appendleft(EVENT_LOG, Entry(now + 1, ch, name, ok, event_id, response))
  /\ COUNTS' = CountsAfter(COUNTS, ch, name, ok)
  /\ DEDUP' = DedupAfter(DEDUP, ch, event_id)

\* GET /metrics: the dedup part of the response, read under METRICS_LOCK.
metrics ==
  [matched |-> DEDUP.matched, pixel_only |-> DEDUP.pixel_only, capi_only |-> DEDUP.capi_only]


\* ------------------------------------------------------------------ server dispatch
\* Draws of _rng.random(), in percent; rates and probabilities are percents too.
Draws == {0, 50, 99}
\* What the real network call of capi_post can do.
NetResults == {"ok", "http_error", "exception"}

\* capi_post(server_events, cfg): what it returns or raises, and whether
\* requests.post was called (sent).  capi_ready is `CAPI_URL and ACCESS_TOKEN`,
\* u the draw of rand_uniform(0.0, 1.0), net the behaviour of requests.post /
\* raise_for_status.  (capi_post_faultlate draws the simulated fault after the
\* request was sent and raises it without a response.)
capi_post_faultlate(cfg, capi_ready, u, net) ==
  IF ~cfg.enable_capi
  THEN [exc |-> "", sent |-> FALSE, ret |-> [skipped |-> TRUE, reason |-> "enable_capi=false"]]
  ELSE IF ~capi_ready
  THEN [exc |-> "", sent |-> FALSE, ret |-> [skipped |-> TRUE, reason |-> "missing_capi_config"]]
  ELSE IF u < cfg.net_capi_error_rate
  THEN [exc |-> "Exception", sent |-> TRUE, msg |-> "503 Simulated"]
  ELSE CASE net = "ok" -> [exc |-> "", sent |-> TRUE, ret |-> [events_received |-> 1]]
         [] net = "http_error" ->
              [exc |-> "HTTPError", sent |-> TRUE, msg |-> "HTTP error", text |-> "upstream body"]
         [] OTHER -> [exc |-> "Exception", sent |-> TRUE, msg |-> "transport error"]
capi_post(cfg, capi_ready, u, net) ==
  IF ~cfg.enable_capi
  THEN [exc |-> "", sent |-> FALSE, ret |-> [skipped |-> TRUE, reason |-> "enable_capi=false"]]
  ELSE IF ~capi_ready
  THEN [exc |-> "", sent |-> FALSE, ret |-> [skipped |-> TRUE, reason |-> "missing_capi_config"]]
  ELSE IF u < cfg.net_capi_error_rate
  THEN [exc |-> "HTTPError", sent |-> FALSE,
        msg |-> "503 Simulated", text |-> "Simulated upstream error"]
  ELSE CASE net = "ok" -> [exc |-> "", sent |-> TRUE, ret |-> [events_received |-> 1]]
         [] net = "http_error" ->
              [exc |-> "HTTPError", sent |-> TRUE, msg |-> "HTTP error", text |-> "upstream body"]
         [] OTHER -> [exc |-> "Exception", sent |-> TRUE, msg |-> "transport error"]

\* The try/except around capi_post in _send_one_through_sinks (1475-1486) and
\* mirror_pixel (1651-1659): the response and the ok flag that get logged.
\* (CapiOutcome_swallow is an except clause that hides the failure.)
CapiOutcome_swallow(cfg, capi_ready, u, net) ==
  LET r == capi_post(cfg, capi_ready, u, net)
  IN IF r.exc = "" THEN [resp |-> r.ret, ok |-> TRUE] ELSE [resp |-> [skipped |-> TRUE], ok |-> TRUE]
CapiOutcome(cfg, capi_ready, u, net) ==
  LET r == capi_post(cfg, capi_ready, u, net)
  IN CASE r.exc = "" -> [resp |-> r.ret, ok |-> TRUE]
       [] r.exc = "HTTPError" -> [resp |-> [error |-> r.msg, text |-> r.text], ok |-> FALSE]
       [] OTHER -> [resp |-> [error |-> r.msg], ok |-> FALSE]

\* map_sim_event_to_capi(e, cfg): the mapped events (at most one), as far as
\* the dispatcher reads them: the event name and the event id after the
\* null_event_id toggle.  An unknown event_type maps to no event.
map_sim_event_to_capi(e, cfg) ==
  IF CapiName(e.event_type) = ""
  THEN << >>
  ELSE <<[event_name |-> CapiName(e.event_type),
          event_id |-> IF cfg.null_event_id THEN None ELSE e.event_id]>>

\* map_sim_event_to_ga4(e, cfg): the mapped GA4 events (their names).
map_sim_event_to_ga4(e) ==
  CASE e.event_type = "product_view" -> <<"view_item">>
    [] e.event_type = "add_to_cart" -> <<"add_to_cart">>
    [] e.event_type = "begin_checkout" -> <<"begin_checkout">>
    [] e.event_type = "purchase" -> <<"purchase">>
    [] OTHER -> << >>

\* The sink entries _send_one_through_sinks logs after the capi entry.
SinksAfterCapi(e, cfg, capi_events) ==
  (IF capi_events # << >> /\ cfg.enable_webhook
   THEN <<[channel |-> "webhook", event_name |-> capi_events[1].event_name]>> ELSE << >>)
  \o
  (IF cfg.enable_ga4 /\ map_sim_event_to_ga4(e) # << >>
   THEN <<[channel |-> "ga4", event_name |-> map_sim_event_to_ga4(e)[1]]>> ELSE << >>)

Threads == {"ingest", "auto"}

\* _send_one_through_sinks(sim_evt, cfg) up to and including the capi entry's
\* _log_event; the sink entries are left in pending[t], one step each.
\* A killed or unmapped event returns before anything is logged.
\* u is the draw capi_post makes and net what the network does.
_send_one_through_sinks_net(t, sim_evt, cfg, u, net) ==
  LET capi_events == map_sim_event_to_capi(sim_evt, cfg)
  IN /\ pending[t] = << >>
     /\ IF capi_events = << >> \/ capi_events[1].event_name \in cfg.kill_event_types
        THEN UNCHANGED <<telemetry, pending>>
        ELSE LET o == CapiOutcome(cfg, env.capi_ready, u, net)
             IN /\ _log_event("capi", capi_events[1].event_name, o.ok,
                              capi_events[1].event_id, o.resp)
                /\ pending' = [pending EXCEPT ![t] = SinksAfterCapi(sim_evt, cfg, capi_events)]
_send_one_through_sinks(t, sim_evt, cfg) ==
  \E u \in Draws, net \in NetResults : _send_one_through_sinks_net(t, sim_evt, cfg, u, net)

\* The webhook / GA4 part of _send_one_through_sinks: one sink entry is logged.
\* webhook_post / ga4_post never raise; their "ok" decides the entry's ok.
sink_step(t) ==
  /\ pending[t] # << >>
  /\ \E sink_ok \in BOOLEAN :
       _log_event(Head(pending[t]).channel, Head(pending[t]).event_name, sink_ok,
                  None, [ok |-> sink_ok])
  /\ pending' = [pending EXCEPT ![t] = Tail(@)]
  /\ UNCHANGED <<CONFIG, env, browser, run, sim, uid_n, control>>

\* POST /ingest: one simulated event forwarded to the sinks under a snapshot of
\* the configuration.
ingest(sim_event) ==
  /\ _send_one_through_sinks("ingest", sim_event, CONFIG)
  /\ UNCHANGED <<CONFIG, env>>

\* POST /metrics/pixel: the browser's report of one pixel dispatch attempt.
metrics_pixel(body) ==
  /\ _log_event("pixel", body.event_name, ~body.dropped, body.event_id,
                [dropped |-> body.dropped])
  /\ UNCHANGED <<CONFIG, env, pending>>

\* POST /mirror/pixel: a pixel-style payload forwarded to CAPI under the same
\* event id; the outcome is logged as a capi entry whatever capi_post did.
\* u is the draw capi_post makes and net what the network does.
mirror_pixel_net(body, u, net) ==
  /\ LET o == CapiOutcome(CONFIG, env.capi_ready, u, net)
     IN _log_event("capi", body.event_name, o.ok, body.event_id, o.resp)
  /\ UNCHANGED <<CONFIG, env, pending>>
mirror_pixel(body) ==
  \E u \in Draws, net \in NetResults : mirror_pixel_net(body, u, net)


\* ------------------------------------------------------------------ browser
\* maybeDesyncEventId(eid): the '_px' suffix when the checkbox is ticked.
maybeDesyncEventId(d, eid) ==
  IF d.desync_event_id THEN eid \o <<"_px">> ELSE eid

\* maybeDropPixel(): the decision and the window counters after the call.
\* (maybeDropPixel_offbyone tests the count before incrementing it.)
maybeDropPixel_offbyone(d, w) ==
  LET n == d.drop_pixel_every_n
  IN IF n = 0
     THEN [drop |-> FALSE, win |-> w]
     ELSE [drop |-> w.pxCount % n = 0, win |-> [w EXCEPT !.pxCount = @ + 1]]
maybeDropPixel(d, w) ==
  LET n == d.drop_pixel_every_n
  IN IF n = 0
     THEN [drop |-> FALSE, win |-> w]
     ELSE [drop |-> (w.pxCount + 1) % n = 0, win |-> [w EXCEPT !.pxCount = @ + 1]]

\* maybeDupePixelId(eid): the id to send and the window counters after the call.
\* __lastPxEid is undefined (None here) until a non-duplicated id was sent.
maybeDupePixelId(d, w, eid) ==
  LET n == d.duplicate_event_id_n
      idx == w.dupeIdx + 1
  IN IF n = 0
     THEN [eid |-> eid, win |-> w]
     ELSE IF idx % n = 0
     THEN [eid |-> IF w.lastPxEid # None THEN w.lastPxEid ELSE eid,
           win |-> [w EXCEPT !.dupeIdx = idx]]
     ELSE [eid |-> eid, win |-> [w EXCEPT !.dupeIdx = idx, !.lastPxEid = eid]]

\* sendPixel(name, payload, opts, btn) up to its first await's completion: the
\* ids, the drop decision and the POST to /metrics/pixel, which the server
\* handles with metrics_pixel.  opts.eventID is a fresh rid() or null, and null
\* falls back to rid(): eid0 is always a fresh id.  A call that is neither
\* disabled nor dropped goes on to the mirror fetch when mirror_to_capi is ticked.
sendPixel(name) ==
  /\ px.pc = "idle"
  /\ win.rid_n < MaxAttempts
  /\ IF ~dom.ENABLE_PIXEL
     THEN UNCHANGED <<telemetry, CONFIG, env, pending, win, px>>
     ELSE LET eid0 == rid(win.rid_n + 1)
              w0 == [win EXCEPT !.rid_n = @ + 1]
              dup == maybeDupePixelId(dom, w0, maybeDesyncEventId(dom, eid0))
              drp == maybeDropPixel(dom, dup.win)
          IN /\ win' = drp.win
             /\ metrics_pixel([event_name |-> name, event_id |-> dup.eid, dropped |-> drp.drop])
             /\ px' = IF ~drp.drop /\ dom.mirror_to_capi
                      THEN [pc |-> "mirror", event_name |-> name, event_id |-> dup.eid]
                      ELSE [pc |-> "idle", event_name |-> "", event_id |-> None]
  /\ UNCHANGED <<dom, run, sim, uid_n, control>>

\* The rest of sendPixel: the POST to /mirror/pixel with the id that was sent,
\* which the server handles with mirror_pixel.
sendPixel_mirror ==
  /\ px.pc = "mirror"
  /\ mirror_pixel([event_name |-> px.event_name, event_id |-> px.event_id])
  /\ px' = [pc |-> "idle", event_name |-> "", event_id |-> None]
  /\ UNCHANGED <<dom, win, run, sim, uid_n, control>>

\* ------------------------------------------------------------------ funnel
\* simulate_store.py's probabilities, in percent.
P_ADD_TO_CART == 35
P_BEGIN_CHECKOUT == 70
P_PURCHASE == 70

\* _event_base(session, event_type=...): the simulated event, as far as the
\* dispatcher reads it; its id is a fresh _uid().
_event_base(et, n) == [event_type |-> et, event_id |-> _uid(n)]

\* _send_simulated_session_once: where control goes after the add_to_cart draw
\* (the begin_checkout draw is nested in the add_to_cart branch;
\* AfterAddDraw_unnested is the funnel without that nesting).
AfterAddDraw_unnested(added) == "begin_checkout?"
AfterAddDraw(added) == IF added THEN "begin_checkout?" ELSE "done"

\* simulate_one_session: the begin_checkout condition `cart and random() < P`.
sim_checkout_cond(cart, u) == cart # << >> /\ u < P_BEGIN_CHECKOUT

\* One stage of a run in the auto thread: the event is generated and sent
\* through the sinks under the run's configuration snapshot.
Emit(et, next_pc) ==
  /\ _send_one_through_sinks("auto", _event_base(et, uid_n + 1), run.cfg)
  /\ uid_n' = uid_n + 1
  /\ run' = [run EXCEPT !.pc = next_pc, !.stages = Append(@, et)]

\* _auto_loop takes a snapshot of CONFIG and, with enable_capi on, runs
\* _send_simulated_session_once(cfg): one step per stage or draw.
session_begin ==
  /\ run.pc \in {"idle", "done"}
  /\ run.n < MaxRuns
  /\ CONFIG.enable_capi
  /\ run' = [pc |-> "page_view", stages |-> << >>, cfg |-> CONFIG, n |-> run.n + 1]
  /\ UNCHANGED <<telemetry, CONFIG, env, pending, browser, sim, uid_n>>

session_page_view ==
  /\ run.pc = "page_view"
  /\ Emit("page_view", "product_view")
  /\ UNCHANGED <<CONFIG, env, browser, sim, control>>

session_product_view ==
  /\ run.pc = "product_view"
  /\ Emit("product_view", "add_to_cart?")
  /\ UNCHANGED <<CONFIG, env, browser, sim, control>>

session_add_to_cart ==
  /\ run.pc = "add_to_cart?"
  /\ \E u \in Draws :
       IF u < run.cfg.p_add_to_cart
       THEN Emit("add_to_cart", AfterAddDraw(TRUE))
       ELSE /\ pending["auto"] = << >>
            /\ run' = [run EXCEPT !.pc = AfterAddDraw(FALSE)]
            /\ UNCHANGED <<telemetry, pending, uid_n>>
  /\ UNCHANGED <<CONFIG, env, browser, sim, control>>

session_begin_checkout ==
  /\ run.pc = "begin_checkout?"
  /\ \E u \in Draws :
       IF u < run.cfg.p_begin_checkout
       THEN Emit("begin_checkout", "purchase?")
       ELSE /\ pending["auto"] = << >>
            /\ run' = [run EXCEPT !.pc = "done"]
            /\ UNCHANGED <<telemetry, pending, uid_n>>
  /\ UNCHANGED <<CONFIG, env, browser, sim, control>>

session_purchase ==
  /\ run.pc = "purchase?"
  /\ \E u \in Draws :
       IF u < run.cfg.p_purchase
       THEN Emit("purchase", "done")
       ELSE /\ pending["auto"] = << >>
            /\ run' = [run EXCEPT !.pc = "done"]
            /\ UNCHANGED <<telemetry, pending, uid_n>>
  /\ UNCHANGED <<CONFIG, env, browser, sim, control>>

\* simulate_store.py: send_event(event_base(...), target) posts the event to
\* the target's /ingest, which the server handles with ingest.
send_event(et, next_pc, cart) ==
  /\ ingest([event_type |-> et, event_id |-> _uid(uid_n + 1)])
  /\ uid_n' = uid_n + 1
  /\ sim' = [sim EXCEPT !.pc = next_pc, !.stages = Append(@, et), !.cart = cart]

\* simulate_one_session(target), one step per stage or draw.
sim_begin ==
  /\ sim.pc \in {"idle", "done"}
  /\ sim.n < MaxRuns
  /\ sim' = [pc |-> "page_view", stages |-> << >>, cart |-> << >>, n |-> sim.n + 1]
  /\ UNCHANGED <<telemetry, CONFIG, env, pending, browser, run, uid_n, control>>

sim_page_view ==
  /\ sim.pc = "page_view"
  /\ send_event("page_view", "product_view", sim.cart)
  /\ UNCHANGED <<browser, run, control>>

sim_product_view ==
  /\ sim.pc = "product_view"
  /\ send_event("product_view", "add_to_cart?", sim.cart)
  /\ UNCHANGED <<browser, run, control>>

sim_add_to_cart ==
  /\ sim.pc = "add_to_cart?"
  /\ \E u \in Draws, qty \in {1, 2} :
       IF u < P_ADD_TO_CART
       THEN send_event("add_to_cart", "begin_checkout?", Append(sim.cart, [qty |-> qty]))
       ELSE /\ pending["ingest"] = << >>
            /\ sim' = [sim EXCEPT !.pc = "begin_checkout?"]
            /\ UNCHANGED <<telemetry, CONFIG, env, pending, uid_n>>
  /\ UNCHANGED <<browser, run, control>>

sim_begin_checkout ==
  /\ sim.pc = "begin_checkout?"
  /\ \E u \in Draws :
       IF sim_checkout_cond(sim.cart, u)
       THEN send_event("begin_checkout", "purchase?", sim.cart)
       ELSE /\ pending["ingest"] = << >>
            /\ sim' = [sim EXCEPT !.pc = "done"]
            /\ UNCHANGED <<telemetry, CONFIG, env, pending, uid_n>>
  /\ UNCHANGED <<browser, run, control>>

sim_purchase ==
  /\ sim.pc = "purchase?"
  /\ \E u \in Draws :
       IF u < P_PURCHASE
       THEN send_event("purchase", "done", sim.cart)
       ELSE /\ pending["ingest"] = << >>
            /\ sim' = [sim EXCEPT !.pc = "done"]
            /\ UNCHANGED <<telemetry, CONFIG, env, pending, uid_n>>
  /\ UNCHANGED <<browser, run, control>>


\* ------------------------------------------------------------------ initial states
\* CONFIG at boot (lines 42-109), the keys the handlers modelled here read;
\* kill_event_types is the set of event names whose kill flag is true.
\* Units: rps in tenths of a session per second, probabilities, rates and
\* fractions in percent, prices and shipping in cents.
DEFAULT_CONFIG ==
  [rps |-> 5,
   p_add_to_cart |-> 35, p_begin_checkout |-> 70, p_purchase |-> 70,
   product_catalog_size |-> 200, price_min |-> 1000, price_max |-> 12000,
   free_shipping_threshold |-> 7500,
   currency_override |-> "AUTO", mismatch_currency |-> "NONE",
   null_price |-> FALSE, null_currency |-> FALSE,
   schema_remove_contents |-> FALSE, schema_empty_arrays |-> FALSE,
   schema_str_numbers |-> FALSE, schema_unknown_fields |-> FALSE,
   shipping_options |-> <<499, 699, 999>>, tax_rate |-> 8,
   cost_pct_min |-> 40, cost_pct_max |-> 80,
   pltv_min |-> 12000, pltv_max |-> 60000,
   enable_capi |-> TRUE, null_event_id |-> FALSE,
   seed |-> "",
   duplicate_event_id_n |-> 0, clock_skew_seconds |-> 0,
   net_capi_error_rate |-> 0, kill_event_types |-> {},
   enable_webhook |-> FALSE, enable_ga4 |-> FALSE]

InitTelemetry ==
  /\ EVENT_LOG = << >>
  /\ COUNTS = [sent |-> [c \in Channels |-> 0],
               sent_name |-> [k \in Channels \X (EventNames \cup Ga4Names) |-> 0],
               errors |-> 0]
  /\ DEDUP = [pixel_ids |-> {}, capi_ids |-> {}, matched |-> 0, pixel_only |-> 0, capi_only |-> 0]
  /\ now = 0

\* The page as loaded: every discrepancy field at its HTML default.
InitBrowser ==
  /\ dom = [ENABLE_PIXEL |-> TRUE, desync_event_id |-> FALSE, duplicate_event_id_n |-> 0,
            drop_pixel_every_n |-> 0, mirror_to_capi |-> FALSE]
  /\ win = [pxCount |-> 0, dupeIdx |-> 0, lastPxEid |-> None, rid_n |-> 0]
  /\ px = [pc |-> "idle", event_name |-> "", event_id |-> None]

InitRuns ==
  /\ run = [pc |-> "idle", stages |-> << >>, cfg |-> CONFIG, n |-> 0]
  /\ sim = [pc |-> "idle", stages |-> << >>, cart |-> << >>, n |-> 0]
  /\ uid_n = 0
  /\ pending = [t \in Threads |-> << >>]

\* ------------------------------------------------------------------ auto-stream scheduler
\* _auto_loop threads started in one behaviour (thread ids 1..MaxLoops).
MaxLoops == 2
LoopIds == 1..MaxLoops
\* _auto_thread = None.
NoThread == 0

\* Values as they arrive in a query string or a JSON body: a number, a string
\* float() parses ("numstr"), NaN, a string it does not parse ("str"), true /
\* false, null, a list of numbers, an object.  n is the number, where there is one.
JNum(n) == [t |-> "num", n |-> n]
JNumStr(n) == [t |-> "numstr", n |-> n]
JNaN == [t |-> "nan", n |-> 0]
JStr == [t |-> "str", n |-> 0]
JNull == [t |-> "null", n |-> 0]
JList == [t |-> "list", n |-> 0]
JObj == [t |-> "obj", n |-> 0]
Absent == [t |-> "absent", n |-> 0]

Max(a, b) == IF a >= b THEN a ELSE b
Min(a, b) == IF a <= b THEN a ELSE b

\* clampf(v, lo, hi, default): float(v) raises for a string that is no number,
\* for null and for a list or an object, and the default is returned;
\* max(lo, min(hi, NaN)) is hi because every comparison with NaN is false.
clampf(v, lo, hi, default) ==
  IF v.t \in {"num", "numstr"} THEN Max(lo, Min(hi, v.n))
  ELSE IF v.t = "nan" THEN hi
  ELSE default

\* cfg["k"] raises KeyError for a key the dict does not hold.
HasKey(cfg, k) == k \in DOMAIN cfg
\* cfg.get(k) of a boolean switch: a missing key reads as None, which is falsy.
GetFlag(cfg, k) == HasKey(cfg, k) /\ cfg[k]

\* get_cfg_snapshot() takes CONFIG_LOCK: it waits while a writer holds it.
CONFIG_LOCK_free == cfgw.lock = ""

\* Thread.is_alive().
is_alive(t) == t # NoThread /\ sched.loop[t].pc \in {"check", "iter", "wait"}

\* A response, and which handler answered the request before it.
Response(op, status, running, rps) ==
  [op |-> op, status |-> status, running |-> running, rps |-> rps, prev |-> http.op]

\* GET /auto/start[?rps=q].  The rate is written first, whatever the scheduler's
\* state; a live _auto_thread makes the rest a report; otherwise _stop_evt is
\* cleared and a new _auto_loop thread is started.  CONFIG["rps"] raises
\* KeyError when the key is missing (HTTP 500): before anything happened when
\* q is given, after the thread was started otherwise.
auto_start(q) ==
  /\ CONFIG_LOCK_free
  /\ IF q.t # "absent" /\ ~HasKey(CONFIG, "rps")
     THEN /\ http' = Response("auto_start", 500, FALSE, 0)
          /\ UNCHANGED <<CONFIG, sched>>
     ELSE /\ CONFIG' = IF q.t # "absent"
                       THEN [CONFIG EXCEPT !.rps = clampf(q, 1, 100, CONFIG.rps)]
                       ELSE CONFIG
          /\ IF is_alive(sched.auto_thread)
             THEN UNCHANGED sched
             ELSE /\ sched.started < MaxLoops
                  /\ sched' = [sched EXCEPT
                       !.stop_evt = FALSE,
                       !.started = @ + 1,
                       !.auto_thread = sched.started + 1,
                       !.loop[sched.started + 1].pc = "check"]
          /\ http' = IF HasKey(CONFIG, "rps")
                     THEN Response("auto_start", 200, TRUE, CONFIG'.rps)
                     ELSE Response("auto_start", 500, FALSE, 0)
  /\ UNCHANGED <<telemetry, env, pending, browser, run, sim, uid_n, cfgw>>

\* GET /auto/stop up to the join: _stop_evt.set(); with no thread handle the
\* handler is done.  stop_seen marks the loops that were alive at the request.
StopSet(s) ==
  [s EXCEPT !.stop_evt = TRUE,
            !.stop_pc = IF s.auto_thread # NoThread THEN "join" ELSE "idle",
            !.loop = [t \in LoopIds |->
                        IF s.loop[t].pc \in {"check", "iter", "wait"}
                        THEN [s.loop[t] EXCEPT !.stop_seen = TRUE] ELSE s.loop[t]]]
auto_stop_set ==
  /\ sched.stop_pc = "idle"
  /\ sched' = StopSet(sched)
  /\ http' = IF sched.auto_thread = NoThread
             THEN Response("auto_stop", 200, FALSE, 0) ELSE http
  /\ UNCHANGED <<telemetry, CONFIG, env, pending, browser, run, sim, uid_n, cfgw>>

\* The rest of GET /auto/stop: _auto_thread.join(timeout=1.0) returns when the
\* thread has ended, or after a second when the loop is still in an iteration
\* (a dispatch can take longer: lag_capi_seconds, the request timeouts); then
\* _auto_thread = None.
StopJoined_keephandle(s) == [s EXCEPT !.stop_pc = "idle"]
StopJoined(s) == [s EXCEPT !.stop_pc = "idle", !.auto_thread = NoThread]
auto_stop_join ==
  /\ sched.stop_pc = "join"
  /\ \/ ~is_alive(sched.auto_thread)
     \/ sched.loop[sched.auto_thread].pc = "iter"
  /\ sched' = StopJoined(sched)
  /\ http' = Response("auto_stop", 200, FALSE, 0)
  /\ UNCHANGED <<telemetry, CONFIG, env, pending, browser, run, sim, uid_n, cfgw>>

\* GET /auto/status.
auto_status ==
  /\ CONFIG_LOCK_free
  /\ http' = IF HasKey(CONFIG, "rps")
             THEN Response("auto_status", 200, is_alive(sched.auto_thread), CONFIG.rps)
             ELSE Response("auto_status", 500, FALSE, 0)
  /\ UNCHANGED <<telemetry, CONFIG, env, pending, browser, run, sim, uid_n, sched, cfgw>>

\* _make_product(cfg) reads cfg["price_min"] and cfg["price_max"].
_make_product_raises(cfg) == ~HasKey(cfg, "price_min") \/ ~HasKey(cfg, "price_max")

\* _auto_loop, the head of an iteration: `while not _stop_evt.is_set()`, the
\* configuration snapshot, and the start of _send_simulated_session_once when
\* enable_capi is on.  An exception of the session is swallowed by the loop's
\* try/except: a session whose _make_product raises sends nothing.  One
\* iteration at a time holds `run` (sched.owner) until its delay is computed.
loop_check(t) ==
  /\ sched.loop[t].pc = "check"
  /\ IF sched.stop_evt
     THEN /\ sched' = [sched EXCEPT !.loop[t].pc = "exited"]
          /\ UNCHANGED <<telemetry, CONFIG, env, pending, browser, run, sim, uid_n>>
     ELSE /\ CONFIG_LOCK_free
          /\ sched.owner = NoThread
          /\ run.n < MaxRuns
          /\ sched' = [sched EXCEPT !.loop[t].pc = "iter", !.owner = t]
          /\ IF GetFlag(CONFIG, "enable_capi") /\ ~_make_product_raises(CONFIG)
             THEN session_begin
             ELSE /\ run' = [pc |-> "done", stages |-> << >>, cfg |-> CONFIG, n |-> run.n + 1]
                  /\ UNCHANGED <<telemetry, CONFIG, env, pending, browser, sim, uid_n>>
  /\ UNCHANGED <<http, cfgw>>

\* The session of the iteration in progress, one stage or draw per step.
loop_session(t) ==
  /\ sched.loop[t].pc = "iter"
  /\ sched.owner = t
  /\ \/ session_page_view
     \/ session_product_view
     \/ session_add_to_cart
     \/ session_begin_checkout
     \/ session_purchase

\* delay = max(0.05, 1.0 / max(0.1, cfg["rps"])), in milliseconds for rps in
\* tenths per second.
LoopDelay(rps) == Max(50, 10000 \div Max(1, rps))

\* The timeout of _stop_evt.wait: max(0.0, delay - elapsed), in milliseconds.
LoopWait(delay, elapsed) == Max(0, delay - elapsed)

\* _auto_loop after the try/except: the delay is computed from the snapshot,
\* outside the try; cfg["rps"] raises KeyError when the snapshot has no rps,
\* and the thread ends with that exception.  elapsed is the time the
\* iteration took (time.time() - start), in milliseconds.
loop_delay(t, elapsed) ==
  /\ sched.loop[t].pc = "iter"
  /\ sched.owner = t
  /\ run.pc = "done"
  /\ pending["auto"] = << >>
  /\ sched' = IF HasKey(run.cfg, "rps")
              THEN [sched EXCEPT !.loop[t].pc = "wait", !.owner = NoThread,
                                 !.loop[t].delay = LoopDelay(run.cfg.rps),
                                 !.loop[t].wait = LoopWait(LoopDelay(run.cfg.rps), elapsed)]
              ELSE [sched EXCEPT !.loop[t].pc = "crashed", !.owner = NoThread]
  /\ UNCHANGED <<telemetry, CONFIG, env, pending, browser, run, sim, uid_n, http, cfgw>>

\* _stop_evt.wait(delay - elapsed) returns: the time is up, or the event is set.
loop_wake(t) ==
  /\ sched.loop[t].pc = "wait"
  /\ sched' = [sched EXCEPT !.loop[t].pc = "check"]
  /\ UNCHANGED <<telemetry, CONFIG, env, pending, browser, run, sim, uid_n, http, cfgw>>

\* POST /presets/import: the posted object replaces CONFIG as it is
\* (CONFIG.clear(); CONFIG.update(data)), under CONFIG_LOCK.  The preset file
\* the handler also writes is read by /presets/load only, which applies it in
\* the same way; the files are not part of the state here.
presets_import(data) ==
  /\ CONFIG_LOCK_free
  /\ CONFIG' = data
  /\ http' = Response("presets_import", 200, FALSE, 0)
  /\ UNCHANGED <<telemetry, env, pending, browser, run, sim, uid_n, sched, cfgw>>

\* _apply_clock_skew(ts_unix, cfg): cfg.get("clock_skew_seconds", 0) is added
\* to the event's Unix time.
_apply_clock_skew(ts_unix, cfg) ==
  ts_unix + (IF HasKey(cfg, "clock_skew_seconds") THEN cfg.clock_skew_seconds ELSE 0)

\* ------------------------------------------------------------------ the Event Log query
\* GET /api/events returns at most this many entries (out[:200]).
API_EVENTS_LIMIT == 200

\* GET /api/events?channel=ch&type=ty&ok=ok: the entries of EVENT_LOG, in the
\* log's order, that pass the filters given; an empty or absent parameter is
\* no filter, and ok filters for success when it is "1" and for failure when
\* it is anything else.  (api_events_oldest cuts the list at the wrong end,
\* api_events_anychannel forgets the channel filter.)
EventMatches(e, ch, ty, ok) ==
  /\ ch = "" \/ e.channel = ch
  /\ ty = "" \/ e.event_name = ty
  /\ ok = "" \/ e.ok = (ok = "1")
api_events_oldest(ch, ty, ok) ==
  LET out == SelectSeq(EVENT_LOG, LAMBDA e : EventMatches(e, ch, ty, ok))
  IN SubSeq(out, Max(1, Len(out) - API_EVENTS_LIMIT + 1), Len(out))
api_events_anychannel(ch, ty, ok) ==
  LET out == SelectSeq(EVENT_LOG, LAMBDA e : EventMatches(e, "", ty, ok))
  IN SubSeq(out, 1, Min(API_EVENTS_LIMIT, Len(out)))
api_events(ch, ty, ok) ==
  LET out == SelectSeq(EVENT_LOG, LAMBDA e : EventMatches(e, ch, ty, ok))
  IN SubSeq(out, 1, Min(API_EVENTS_LIMIT, Len(out)))

\* The request GET /api/events: the response holds the items; at is the clock
\* of the log the response was computed from.
request_api_events(ch, ty, ok) ==
  /\ http' = [op |-> "api_events", status |-> 200, running |-> FALSE, rps |-> 0,
              prev |-> http.op, args |-> <<ch, ty, ok>>, at |-> now,
              items |-> api_events(ch, ty, ok)]
  /\ UNCHANGED <<telemetry, CONFIG, env, pending, browser, run, sim, uid_n, sched, cfgw>>

\* ------------------------------------------------------------------ configuration writers
\* POST /auto/config requests in one behaviour.
MaxWrites == 1
\* Snapshots recorded in one behaviour.
MaxSnaps == 1

\* More values of a JSON body: a string that is no number (s, for the fields
\* that read it as text), a list of values, an object of named values.  The
\* number n of a value is in the unit of the field it is sent for.
JText(s) == [t |-> "text", n |-> 0, s |-> s]
JListOf(items) == [t |-> "list", n |-> 0, items |-> items]
JObjOf(items) == [t |-> "obj", n |-> 0, items |-> items]
Items(v) == IF "items" \in DOMAIN v THEN v.items ELSE << >>

\* Python's truth value of v: 0, "", null, [] and {} are falsy; NaN is not.
PyTruthy(v) ==
  CASE v.t = "num" -> v.n # 0
    [] v.t \in {"numstr", "str", "text", "nan"} -> TRUE
    [] v.t \in {"list", "obj"} -> Items(v) # << >>
    [] OTHER -> FALSE

\* to_bool(v, default): a number is true when it is not 0 (NaN is not 0), a
\* string when it is one of "1", "true", "t", "yes", "y", "on"; null, lists
\* and objects give the default.
to_bool(v, default) ==
  CASE v.t = "num" -> v.n # 0
    [] v.t = "nan" -> TRUE
    [] v.t = "numstr" -> v.n = 1
    [] v.t = "text" -> v.s \in {"true", "t", "yes", "y", "on"}
    [] v.t = "str" -> FALSE
    [] OTHER -> default

\* clampp(v, lo, hi, default): as clampf with int(); int(NaN) raises.
clampp(v, lo, hi, default) ==
  IF v.t \in {"num", "numstr"} THEN Max(lo, Min(hi, v.n)) ELSE default

_ALLOWED_CURRENCIES == {"AUTO", "NULL", "USD", "EUR", "GBP", "AUD", "CAD", "JPY"}
\* The channel mismatch_currency spoils the currency of, or none.
MismatchModes == {"NONE", "PIXEL", "CAPI"}
\* str(v).upper() of a body value; the text of a value that is no string is
\* no currency code.
Upper(v) ==
  IF v.t # "text" THEN ""
  ELSE CASE v.s = "eur" -> "EUR"
         [] v.s = "usd" -> "USD"
         [] v.s = "capi" -> "CAPI"
         [] OTHER -> v.s

\* CONFIG[k] = x: the key is added when the dict does not hold it.
SetKey(cfg, k, x) == [j \in (DOMAIN cfg) \cup {k} |-> IF j = k THEN x ELSE cfg[j]]

\* The characters of str(n) that float() parses, as numbers of a currency
\* unit in cents: iterating the string "12" gives "1" and "2".
RECURSIVE DigitsOf(_)
DigitsOf(n) == IF n < 10 THEN <<n * 100>> ELSE Append(DigitsOf(n \div 10), (n % 10) * 100)

\* The loop over body["shipping_options"] or []: float(v) of each element,
\* kept when it is >= 0 (NaN is not); elements float() raises for are skipped.
RECURSIVE CleanedList(_)
CleanedList(items) ==
  IF items = << >> THEN << >>
  ELSE LET v == Head(items)
           rest == CleanedList(Tail(items))
       IN IF v.t \in {"num", "numstr"} /\ v.n >= 0 THEN <<v.n>> \o rest ELSE rest
\* Iterating a number raises TypeError; a string is iterated by character, an
\* object by key (a key here is a name, which float() does not parse).
ShippingRaises(v) == PyTruthy(v) /\ v.t \in {"num", "nan"}
Cleaned(v) ==
  IF ~PyTruthy(v) THEN << >>
  ELSE CASE v.t = "numstr" -> IF v.n >= 0 THEN DigitsOf(v.n) ELSE DigitsOf(0 - v.n)
         [] v.t = "list" -> CleanedList(Items(v))
         [] OTHER -> << >>

KillNames ==
  {"PageView", "ViewContent", "AddToCart", "InitiateCheckout", "Purchase", "ReturnInitiated"}
\* d.get raises AttributeError when body["kill_event_types"] is truthy and no object.
KillRaises(v) == PyTruthy(v) /\ v.t # "obj"
Keep(cfg, v) ==
  LET d == IF PyTruthy(v) THEN Items(v) ELSE << >>
  IN {name \in KillNames :
        IF name \in DOMAIN d THEN to_bool(d[name], FALSE)
        ELSE name \in cfg.kill_event_types}

\* The keys POST /auto/config reads from its body, in the order of the handler.
BoolKeys ==
  {"enable_capi", "enable_webhook", "enable_ga4", "null_price", "null_currency",
   "null_event_id", "schema_remove_contents", "schema_empty_arrays",
   "schema_str_numbers", "schema_unknown_fields"}
AutoConfigKeys ==
  <<"enable_capi", "enable_webhook", "enable_ga4", "null_price", "null_currency",
    "null_event_id", "schema_remove_contents", "schema_empty_arrays",
    "schema_str_numbers", "schema_unknown_fields",
    "rps", "p_add_to_cart", "p_begin_checkout", "p_purchase",
    "product_catalog_size", "price_min", "price_max", "currency_override",
    "free_shipping_threshold", "shipping_options", "tax_rate",
    "cost_pct_min", "cost_pct_max", "pltv_min", "pltv_max", "net_capi_error_rate", "duplicate_event_id_n",
    "clock_skew_seconds", "mismatch_currency", "kill_event_types">>

\* The statement of the handler for key k of the body: does it raise, and the
\* configuration it leaves.  CONFIG[k] of a missing key raises KeyError: it is
\* the default passed to clampf / clampp, the bound of price_max and
\* cost_pct_max, and the value kept for a currency that is not allowed.
KeyRaises(cfg, k, v) ==
  CASE k \in BoolKeys -> FALSE
    [] k = "currency_override" ->
         Upper(v) \notin _ALLOWED_CURRENCIES /\ ~HasKey(cfg, k)
    [] k = "mismatch_currency" ->
         Upper(v) \notin MismatchModes /\ ~HasKey(cfg, k)
    [] k = "shipping_options" -> ShippingRaises(v)
    [] k = "kill_event_types" -> ~HasKey(cfg, k) \/ KillRaises(v)
    [] k = "price_max" -> ~HasKey(cfg, "price_min") \/ ~HasKey(cfg, k)
    [] k = "cost_pct_max" -> ~HasKey(cfg, "cost_pct_min") \/ ~HasKey(cfg, k)
    [] k = "pltv_max" -> ~HasKey(cfg, "pltv_min") \/ ~HasKey(cfg, k)
    [] OTHER -> ~HasKey(cfg, k)
KeyValue(cfg, k, v) ==
  CASE k \in BoolKeys -> to_bool(v, GetFlag(cfg, k))
    [] k = "rps" -> clampf(v, 1, 100, cfg[k])
    [] k \in {"p_add_to_cart", "p_begin_checkout", "p_purchase", "tax_rate", "cost_pct_min"} ->
         clampf(v, 0, 100, cfg[k])
    [] k = "product_catalog_size" -> clampp(v, 1, 100000, cfg[k])
    [] k \in {"price_min", "free_shipping_threshold"} -> clampf(v, 0, 100000000, cfg[k])
    [] k = "price_max" -> clampf(v, Max(1, cfg.price_min), 100000000, cfg[k])
    [] k = "currency_override" ->
         IF Upper(v) \in _ALLOWED_CURRENCIES THEN Upper(v) ELSE cfg[k]
    [] k = "shipping_options" -> IF Cleaned(v) # << >> THEN Cleaned(v) ELSE cfg[k]
    [] k = "cost_pct_max" ->
         Max(clampf(v, cfg.cost_pct_min, 100, cfg[k]), cfg.cost_pct_min)
    [] k = "pltv_min" -> clampf(v, 0, 1000000000, cfg[k])
    [] k = "pltv_max" ->
         Max(clampf(v, cfg.pltv_min, 1000000000, cfg[k]), cfg.pltv_min)
    [] k = "net_capi_error_rate" -> clampf(v, 0, 1000, cfg[k])
    [] k \in {"duplicate_event_id_n", "clock_skew_seconds"} ->
         clampp(v, 0, 1000000000, cfg[k])
    [] k = "mismatch_currency" ->
         IF Upper(v) \in MismatchModes THEN Upper(v) ELSE cfg[k]
    [] k = "kill_event_types" -> Keep(cfg, v)

\* The keys of the handler that the body holds, in the handler's order.
Todo(body) == SelectSeq(AutoConfigKeys, LAMBDA k : k \in DOMAIN body)

\* Bodies posted to /auto/config: numbers out of range; a probability that is
\* no number and a lower-case currency; a number for shipping_options between
\* two valid fields; a list with a bad and a negative element, an object and a
\* negative count; a string for kill_event_types; a negative clock skew.
ConfigBodies ==
  {[rps |-> JNum(1000), tax_rate |-> JNum(0 - 5)],
   [p_purchase |-> JStr, currency_override |-> JText("eur")],
   [rps |-> JNum(20), shipping_options |-> JNum(5), tax_rate |-> JNum(50)],
   [shipping_options |-> JListOf(<<JNum(250), JStr, JNum(0 - 100)>>),
    kill_event_types |-> JObjOf([Purchase |-> JNum(1)]),
    duplicate_event_id_n |-> JNum(0 - 1)],
   [kill_event_types |-> JText("x")],
   [clock_skew_seconds |-> JNum(0 - 30)]}

\* POST /auto/config: the handler takes CONFIG_LOCK ...
auto_config_begin(body) ==
  /\ CONFIG_LOCK_free
  /\ cfgw.writes < MaxWrites
  /\ cfgw' = [cfgw EXCEPT !.lock = "auto_config", !.body = body, !.todo = Todo(body),
                          !.before = CONFIG, !.writes = @ + 1]
  /\ UNCHANGED <<telemetry, CONFIG, env, pending, browser, run, sim, uid_n, sched, http>>

\* ... runs the statement of the next key of the body; an exception leaves
\* the with block, which releases the lock, and the request is answered 500 ...
auto_config_write ==
  /\ cfgw.lock = "auto_config"
  /\ cfgw.todo # << >>
  /\ LET k == Head(cfgw.todo)
         v == cfgw.body[k]
     IN IF KeyRaises(CONFIG, k, v)
        THEN /\ cfgw' = [cfgw EXCEPT !.lock = "", !.todo = << >>]
             /\ http' = Response("auto_config", 500, FALSE, 0)
             /\ UNCHANGED CONFIG
        ELSE /\ CONFIG' = SetKey(CONFIG, k, KeyValue(CONFIG, k, v))
             /\ cfgw' = [cfgw EXCEPT !.todo = Tail(@)]
             /\ UNCHANGED http
  /\ UNCHANGED <<telemetry, env, pending, browser, run, sim, uid_n, sched>>

\* ... and after the last key releases the lock and answers 200.
auto_config_return ==
  /\ cfgw.lock = "auto_config"
  /\ cfgw.todo = << >>
  /\ cfgw' = [cfgw EXCEPT !.lock = ""]
  /\ http' = Response("auto_config", 200, FALSE, 0)
  /\ UNCHANGED <<telemetry, CONFIG, env, pending, browser, run, sim, uid_n, sched>>

\* get_cfg_snapshot(): a deep copy of CONFIG taken under CONFIG_LOCK.
get_cfg_snapshot ==
  /\ CONFIG_LOCK_free
  /\ cfgw.snaps < MaxSnaps
  /\ cfgw' = [cfgw EXCEPT !.snap = CONFIG, !.snaps = @ + 1]
  /\ UNCHANGED <<telemetry, CONFIG, env, pending, browser, run, sim, uid_n, sched, http>>

\* POST /config/seed: the posted seed (a string here) is stored as it is;
\* reseed() then strips it.
set_seed(seed) ==
  /\ CONFIG_LOCK_free
  /\ CONFIG' = SetKey(CONFIG, "seed", seed)
  /\ http' = Response("set_seed", 200, FALSE, 0)
  /\ UNCHANGED <<telemetry, env, pending, browser, run, sim, uid_n, sched, cfgw>>

\* POST /presets/reset.
presets_reset ==
  /\ CONFIG_LOCK_free
  /\ CONFIG' = DEFAULT_CONFIG
  /\ http' = Response("presets_reset", 200, FALSE, 0)
  /\ UNCHANGED <<telemetry, env, pending, browser, run, sim, uid_n, sched, cfgw>>

\* CONFIG_LOCK free, no request to /auto/config yet, no snapshot recorded.
NoBody == [k \in {} |-> Absent]
InitCfgw ==
  [lock |-> "", body |-> NoBody, todo |-> << >>, before |-> DEFAULT_CONFIG,
   snap |-> DEFAULT_CONFIG, snaps |-> 0, writes |-> 0]

\* The process at boot: no scheduler thread, _stop_evt clear, CONFIG_LOCK free.
InitControl ==
  /\ sched = [stop_evt |-> FALSE, auto_thread |-> NoThread, started |-> 0,
              stop_pc |-> "idle", owner |-> NoThread,
              loop |-> [t \in LoopIds |->
                          [pc |-> "unborn", delay |-> 0, wait |-> 0, stop_seen |-> FALSE]]]
  /\ http = [op |-> "", status |-> 0, running |-> FALSE, rps |-> 0, prev |-> ""]
  /\ cfgw = InitCfgw

\* ------------------------------------------------------------------ the mapped payload
\* A simulated event as a JSON object: a record of the keys it holds.  Its
\* timestamp is Iso(n), an ISO-8601 string of unix second n, or a value that
\* is none; prices and totals are in cents.
Iso(n) == [t |-> "iso", n |-> n]
Get(d, k, default) == IF HasKey(d, k) THEN d[k] ELSE default
NoData == [k \in {} |-> JNull]

\* iso_to_unix(ts_iso): ts_iso.replace raises AttributeError for a value that
\* is no string, datetime.fromisoformat ValueError for a string that is no
\* date.
iso_to_unix_raises(v) == v.t # "iso"
iso_to_unix(v) == v.n
\* float(v) and int(v): a number or the text of one; int(NaN) raises too.
float_raises(v) == v.t \notin {"num", "numstr", "nan"}
int_raises(v) == v.t \notin {"num", "numstr"}

\* _apply_currency_override(cur, cfg, channel): mismatch_currency spoils the
\* currency of its channel before the override is looked at.
\* (_apply_currency_override_fixedfirst lets a fixed code win over NULL's turn
\* and over nothing else: the override read as a code whenever it is not AUTO.)
_apply_currency_override_fixedfirst(cur, cfg, channel) ==
  LET ov == IF Get(cfg, "currency_override", "") = "" THEN "AUTO" ELSE cfg.currency_override
      mm == IF Get(cfg, "mismatch_currency", "") = "" THEN "NONE" ELSE cfg.mismatch_currency
  IN IF (mm = "PIXEL" /\ channel = "pixel") \/ (mm = "CAPI" /\ channel = "capi")
     THEN IF PyTruthy(cur) THEN JNull ELSE JText("USD")
     ELSE IF ov # "AUTO" THEN JText(ov)
     ELSE cur
_apply_currency_override(cur, cfg, channel) ==
  LET ov == IF Get(cfg, "currency_override", "") = "" THEN "AUTO" ELSE cfg.currency_override
      mm == IF Get(cfg, "mismatch_currency", "") = "" THEN "NONE" ELSE cfg.mismatch_currency
  IN IF (mm = "PIXEL" /\ channel = "pixel") \/ (mm = "CAPI" /\ channel = "capi")
     THEN IF PyTruthy(cur) THEN JNull ELSE JText("USD")
     ELSE IF ov = "NULL" THEN JNull
     ELSE IF ov # "AUTO" THEN JText(ov)
     ELSE cur

\* One line of a cart: li["product_id"], int(li["qty"]), float(li["price"]).
line_raises(li) ==
  \/ ~HasKey(li, "product_id")
  \/ ~HasKey(li, "qty") \/ int_raises(li.qty)
  \/ ~HasKey(li, "price") \/ float_raises(li.price)
content_of(li) == [id |-> li.product_id, quantity |-> JNum(li.qty.n), item_price |-> JNum(li.price.n)]
\* build_contents(lines): `lines or []`, so null is an empty cart.
build_contents_raises(lines) == \E i \in 1..Len(Items(lines)) : line_raises(Items(lines)[i])
build_contents(lines) == [i \in 1..Len(Items(lines)) |-> content_of(Items(lines)[i])]

\* _schema_mutations(custom_data, cfg).
_schema_mutations(cd, cfg) ==
  LET kept == IF GetFlag(cfg, "schema_remove_contents") THEN DOMAIN cd \ {"contents"}
              ELSE DOMAIN cd
      keys == IF GetFlag(cfg, "schema_unknown_fields") THEN kept \cup {"unknown_field_xyz"}
              ELSE kept
  IN IF DOMAIN cd = {} THEN cd
     ELSE [k \in keys |->
             CASE k = "unknown_field_xyz" -> JText("foo")
               [] k \in {"contents", "content_ids"} /\ GetFlag(cfg, "schema_empty_arrays") -> << >>
               [] OTHER -> cd[k]]

\* The custom_data of the event type, before the bad-data toggles.
\* append_margin_pltv adds nothing: append_margin and append_pltv are off.
custom_data_of(e, cfg, cur) ==
  LET et == Get(e, "event_type", "")
  IN CASE et = "product_view" ->
            [content_type |-> JText("product"), content_ids |-> <<e.product.product_id>>,
             value |-> JNum(e.product.price.n), currency |-> cur]
       [] et = "add_to_cart" ->
            [content_type |-> JText("product"), content_ids |-> <<e.line_item.product_id>>,
             contents |-> <<content_of(e.line_item)>>,
             value |-> JNum(e.line_item.qty.n * e.line_item.price.n), currency |-> cur]
       [] et = "begin_checkout" ->
            [contents |-> build_contents(e.cart),
             value |-> JNum(Get(e, "total", JNum(0)).n), currency |-> cur]
       [] et = "purchase" ->
            [contents |-> build_contents(e.items),
             value |-> JNum(Get(e, "total", JNum(0)).n), currency |-> cur]
       [] et = "return_initiated" ->
            [content_type |-> JText("product"),
             content_ids |-> IF HasKey(e, "product_id") THEN <<e.product_id>> ELSE << >>,
             value |-> JNum(0), currency |-> cur]
       [] OTHER -> NoData

\* The loop "apply bad-data toggles" over one mapped event.
\* (bad_data_toggles_keepfixed leaves the currency of a fixed override alone.)
bad_data_cd(cd, null_currency, null_price) ==
  [k \in DOMAIN cd |->
     CASE k = "currency" /\ null_currency -> JNull
       [] k = "value" /\ null_price -> JNull
       [] k = "contents" /\ null_price ->
            [i \in 1..Len(cd[k]) |-> [cd[k][i] EXCEPT !.item_price = JNull]]
       [] OTHER -> cd[k]]
bad_data_toggles_keepfixed(ev, cfg) ==
  [ev EXCEPT !.event_id = IF GetFlag(cfg, "null_event_id") THEN None ELSE @,
             !.custom_data =
                bad_data_cd(@, GetFlag(cfg, "null_currency")
                                 /\ Get(cfg, "currency_override", "AUTO") \in {"AUTO", "NULL"},
                            GetFlag(cfg, "null_price"))]
bad_data_toggles(ev, cfg) ==
  [ev EXCEPT !.event_id = IF GetFlag(cfg, "null_event_id") THEN None ELSE @,
             !.custom_data =
                bad_data_cd(@, GetFlag(cfg, "null_currency"), GetFlag(cfg, "null_price"))]

\* _maybe_str_nums(obj, cfg): every number of the event as its text; null
\* stays null.
str_num(v) == IF v.t = "num" THEN JNumStr(v.n) ELSE v
_maybe_str_nums(ev, cfg) ==
  IF ~GetFlag(cfg, "schema_str_numbers") THEN ev
  ELSE [ev EXCEPT
          !.event_time = str_num(@),
          !.custom_data =
             [k \in DOMAIN @ |->
                CASE k = "value" -> str_num(@[k])
                  [] k = "contents" ->
                       [i \in 1..Len(@[k]) |->
                          [@[k][i] EXCEPT !.quantity = str_num(@), !.item_price = str_num(@)]]
                  [] OTHER -> @[k]]]

\* map_sim_event_to_capi(e, cfg), the whole payload.  What makes it raise:
\* e["timestamp"] and the e["product"], e["line_item"], e["cart"], e["items"]
\* of the event type are subscripts (KeyError), and prices, quantities and
\* totals go through float() and int().
sim_event_raises(e, cfg) ==
  LET et == Get(e, "event_type", "")
  IN \/ ~HasKey(e, "timestamp") \/ iso_to_unix_raises(e.timestamp)
     \/ /\ et = "product_view"
        /\ \/ ~HasKey(e, "product") \/ ~HasKey(e.product, "product_id")
           \/ ~HasKey(e.product, "price") \/ float_raises(e.product.price)
     \/ et = "add_to_cart" /\ (~HasKey(e, "line_item") \/ line_raises(e.line_item))
     \/ /\ et = "begin_checkout"
        /\ \/ ~HasKey(e, "cart") \/ build_contents_raises(e.cart)
           \/ (HasKey(e, "total") /\ float_raises(e.total))
     \/ /\ et = "purchase"
        /\ \/ ~HasKey(e, "items") \/ build_contents_raises(e.items)
           \/ (HasKey(e, "total") /\ float_raises(e.total))
sim_event_to_capi(e, cfg) ==
  LET et == Get(e, "event_type", "")
      cur == _apply_currency_override(
               Get(Get(e, "context", NoData), "currency", JText("USD")), cfg, "capi")
      base == [event_name |-> CapiName(et),
               event_time |-> JNum(_apply_clock_skew(iso_to_unix(e.timestamp), cfg)),
               event_id |-> Get(e, "event_id", None),
               custom_data |-> _schema_mutations(custom_data_of(e, cfg, cur), cfg)]
  IN IF CapiName(et) = "" THEN << >>
     ELSE <<_maybe_str_nums(bad_data_toggles(base, cfg), cfg)>>

\* ------------------------------------------------------------------ Spec: the dispatch handlers
\* Requests any client can send, with the event ids that matter to the
\* tracker: absent/null, empty, an id both channels report and one only the
\* server reports.
PixelBodies == [event_name : {"Purchase"}, event_id : {EmptyStr, rid(1)}, dropped : BOOLEAN]
MirrorBodies == [event_name : {"Purchase"}, event_id : {None, rid(1)}]
\* "refund" is an event_type the mapper does not know.
SimEvents == [event_type : {"page_view", "refund"}, event_id : {rid(2)}]

DispatchConfigs ==
  {DEFAULT_CONFIG,
   [DEFAULT_CONFIG EXCEPT !.null_event_id = TRUE, !.kill_event_types = {"PageView"}],
   [DEFAULT_CONFIG EXCEPT !.enable_webhook = TRUE, !.enable_ga4 = TRUE]}

Init ==
  /\ InitTelemetry
  /\ CONFIG \in DispatchConfigs
  /\ env = [capi_ready |-> TRUE]
  /\ InitBrowser
  /\ InitRuns
  /\ InitControl

request_metrics_pixel ==
  /\ CanRequest
  /\ \E body \in PixelBodies : metrics_pixel(body)
  /\ UNCHANGED <<browser, run, sim, uid_n, control>>

request_mirror_pixel ==
  /\ CanRequest
  /\ \E body \in MirrorBodies : mirror_pixel(body)
  /\ UNCHANGED <<browser, run, sim, uid_n, control>>

request_ingest ==
  /\ CanRequest
  /\ \E sim_event \in SimEvents : ingest(sim_event)
  /\ UNCHANGED <<browser, run, sim, uid_n, control>>

sinks == \E t \in Threads : sink_step(t)

\* The auto thread's funnel runs, interleaved with the requests.
auto_thread ==
  /\ CanRequest
  /\ UNCHANGED control
  /\ \/ session_begin
     \/ session_page_view
     \/ session_product_view
     \/ session_add_to_cart
     \/ session_begin_checkout
     \/ session_purchase

Next ==
  \/ request_metrics_pixel
  \/ request_mirror_pixel
  \/ request_ingest
  \/ sinks
  \/ auto_thread

Spec == Init /\ [][Next]_vars

\* ------------------------------------------------------------------ SpecPixel: the browser
\* The discrepancy fields are set before the first event and kept.
InitPixel ==
  /\ InitTelemetry
  /\ CONFIG = DEFAULT_CONFIG
  /\ env \in [capi_ready : BOOLEAN]
  /\ dom \in [ENABLE_PIXEL : BOOLEAN, desync_event_id : BOOLEAN,
              duplicate_event_id_n : 0..MaxN, drop_pixel_every_n : 0..MaxN,
              mirror_to_capi : BOOLEAN]
  /\ win = [pxCount |-> 0, dupeIdx |-> 0, lastPxEid |-> None, rid_n |-> 0]
  /\ px = [pc |-> "idle", event_name |-> "", event_id |-> None]
  /\ InitRuns
  /\ InitControl

NextPixel ==
  \/ sendPixel("Purchase")
  \/ sendPixel_mirror

SpecPixel == InitPixel /\ [][NextPixel]_vars

\* ------------------------------------------------------------------ SpecFunnel: the funnel runs
FunnelConfigs ==
  {[DEFAULT_CONFIG EXCEPT !.p_add_to_cart = pr[1], !.p_begin_checkout = pr[2],
                          !.p_purchase = pr[3], !.kill_event_types = k] :
     pr \in {<<35, 70, 70>>, <<0, 0, 0>>, <<100, 100, 100>>, <<100, 0, 100>>},
     k \in {{}, {"AddToCart"}}}

InitFunnel ==
  /\ InitTelemetry
  /\ CONFIG \in FunnelConfigs
  /\ env = [capi_ready |-> FALSE]
  /\ InitBrowser
  /\ InitRuns
  /\ InitControl

\* A behaviour runs the server's auto thread or the stand-alone script.
auto_begin == sim.n = 0 /\ session_begin /\ UNCHANGED control
script_begin == run.n = 0 /\ sim_begin

NextFunnel ==
  \/ auto_begin
  \/ session_page_view
  \/ session_product_view
  \/ session_add_to_cart
  \/ session_begin_checkout
  \/ session_purchase
  \/ script_begin
  \/ sim_page_view
  \/ sim_product_view
  \/ sim_add_to_cart
  \/ sim_begin_checkout
  \/ sim_purchase

SpecFunnel == InitFunnel /\ [][NextFunnel]_vars

\* ------------------------------------------------------------------ SpecLog: a full Event Log
\* EVENT_LOG after n POSTs to /mirror/pixel of a PageView without an event id,
\* CAPI not configured: n capi entries, newest first.
LoggedBefore(n) ==
  [i \in 1..n |-> Entry(n + 1 - i, "capi", "PageView", TRUE, None,
                        [skipped |-> TRUE, reason |-> "missing_capi_config"])]

InitLog ==
  /\ now = EVENT_LOG_MAX - 1
  /\ EVENT_LOG = LoggedBefore(now)
  /\ COUNTS = [sent |-> [c \in Channels |-> IF c = "capi" THEN now ELSE 0],
               sent_name |-> [k \in Channels \X (EventNames \cup Ga4Names) |->
                                IF k = <<"capi", "PageView">> THEN now ELSE 0],
               errors |-> 0]
  /\ DEDUP = [pixel_ids |-> {}, capi_ids |-> {}, matched |-> 0, pixel_only |-> 0, capi_only |-> 0]
  /\ CONFIG \in {[DEFAULT_CONFIG EXCEPT !.enable_webhook = wh] : wh \in BOOLEAN}
  /\ env = [capi_ready |-> FALSE]
  /\ InitBrowser
  /\ InitRuns
  /\ InitControl

LogPixelBodies == [event_name : {"Purchase"}, event_id : {None, rid(1)}, dropped : {FALSE}]
LogSimEvents == [event_type : {"purchase"}, event_id : {rid(1), rid(2)}]

log_metrics_pixel ==
  /\ \E body \in LogPixelBodies : metrics_pixel(body)
  /\ UNCHANGED <<browser, run, sim, uid_n, control>>

log_ingest ==
  /\ \E sim_event \in LogSimEvents : ingest(sim_event)
  /\ UNCHANGED <<browser, run, sim, uid_n, control>>

NextLog ==
  \/ log_metrics_pixel
  \/ log_ingest
  \/ sinks

SpecLog == InitLog /\ [][NextLog]_vars


\* ------------------------------------------------------------------ SpecSched: the scheduler
\* ?rps= of GET /auto/start: absent, "100" and a string that is no number.
StartArgs == {Absent, JNumStr(1000), JStr}
\* CONFIG after POST /auto/config {"p_add_to_cart": 0}: sessions of two events.
SchedConfig == [DEFAULT_CONFIG EXCEPT !.p_add_to_cart = 0]
\* Objects posted to /presets/import: that configuration without its rps, and
\* with rps = 100.
ImportData ==
  {[k \in (DOMAIN SchedConfig) \ {"rps"} |-> SchedConfig[k]],
   [SchedConfig EXCEPT !.rps = 1000]}

InitSched ==
  /\ InitTelemetry
  /\ CONFIG = SchedConfig
  /\ env = [capi_ready |-> FALSE]
  /\ InitBrowser
  /\ InitRuns
  /\ InitControl

request_auto_start == \E q \in StartArgs : auto_start(q)
request_presets_import == \E data \in ImportData : presets_import(data)
auto_loop_check == \E t \in LoopIds : loop_check(t)
auto_loop_session == \E t \in LoopIds : loop_session(t)
\* Iterations here take no time to speak of.
auto_loop_delay == \E t \in LoopIds : loop_delay(t, 0)
auto_loop_wake == \E t \in LoopIds : loop_wake(t)

NextSched ==
  \/ request_auto_start
  \/ auto_stop_set
  \/ auto_stop_join
  \/ request_presets_import
  \/ auto_loop_check
  \/ auto_loop_session
  \/ auto_loop_delay
  \/ auto_loop_wake

SpecSched == InitSched /\ [][NextSched]_vars

\* ------------------------------------------------------------------ SpecFail: delivery failures
\* Requests to /mirror/pixel before the scheduler's first entry.
MaxMirrors == 1
\* The scheduler is running (after GET /auto/start), CAPI is configured, and
\* the network may fail; net_capi_error_rate is 0 or 0.5, and ViewContent is
\* killed: a session logs its PageView only.
FailConfigs ==
  {[SchedConfig EXCEPT !.net_capi_error_rate = r, !.kill_event_types = {"ViewContent"}] :
     r \in {0, 50}}

InitFail ==
  /\ InitTelemetry
  /\ CONFIG \in FailConfigs
  /\ env = [capi_ready |-> TRUE]
  /\ InitBrowser
  /\ InitRuns
  /\ sched = [stop_evt |-> FALSE, auto_thread |-> 1, started |-> 1,
              stop_pc |-> "idle", owner |-> NoThread,
              loop |-> [t \in LoopIds |->
                          [pc |-> IF t = 1 THEN "check" ELSE "unborn",
                           delay |-> 0, wait |-> 0, stop_seen |-> FALSE]]]
  /\ http = [op |-> "auto_start", status |-> 200, running |-> TRUE,
             rps |-> CONFIG.rps, prev |-> ""]
  /\ cfgw = InitCfgw

fail_mirror_pixel ==
  /\ now < MaxMirrors
  /\ \E body \in MirrorBodies : mirror_pixel(body)
  /\ UNCHANGED <<browser, run, sim, uid_n, control>>

NextFail ==
  \/ fail_mirror_pixel
  \/ auto_loop_check
  \/ auto_loop_session
  \/ auto_loop_delay
  \/ auto_loop_wake

SpecFail == InitFail /\ [][NextFail]_vars

\* ------------------------------------------------------------------ SpecConfig: the configuration
\* Seeds posted to /config/seed.
Seeds == {"", "s1"}

InitConfig ==
  /\ InitTelemetry
  /\ CONFIG = DEFAULT_CONFIG
  /\ env = [capi_ready |-> FALSE]
  /\ InitBrowser
  /\ InitRuns
  /\ InitControl

request_set_seed == \E seed \in Seeds : set_seed(seed)
request_auto_config == \E body \in ConfigBodies : auto_config_begin(body)

NextConfig ==
  \/ request_auto_config
  \/ auto_config_write
  \/ auto_config_return
  \/ get_cfg_snapshot
  \/ request_set_seed
  \/ presets_reset
  \/ request_presets_import
  \/ request_auto_start

SpecConfig == InitConfig /\ [][NextConfig]_vars

\* ------------------------------------------------------------------ SpecTick: the scheduler's sleep
\* The time an iteration took, in milliseconds: nothing, less than the
\* shortest delay, and more than the delay of the default rate.
Elapsed == {0, 70, 2500}

tick_loop_delay == \E t \in LoopIds, elapsed \in Elapsed : loop_delay(t, elapsed)

NextTick ==
  \/ request_auto_start
  \/ auto_loop_check
  \/ auto_loop_session
  \/ tick_loop_delay
  \/ auto_loop_wake

SpecTick == InitSched /\ [][NextTick]_vars

\* ------------------------------------------------------------------ SpecGate: Enable CAPI switched off
\* The scheduler is running with CAPI configured; the page's Enable CAPI
\* switch is turned off: POST /auto/config {"enable_capi": false}.
GateBody == [enable_capi |-> JNum(0)]

gate_auto_config == auto_config_begin(GateBody)

NextGate ==
  \/ gate_auto_config
  \/ auto_config_write
  \/ auto_config_return
  \/ auto_loop_check
  \/ auto_loop_session
  \/ auto_loop_delay
  \/ auto_loop_wake

SpecGate == InitFail /\ [][NextGate]_vars

\* ------------------------------------------------------------------ SpecQuery: the Event Log query
\* The log holds one entry less than a response can: 199 capi entries.  The
\* requests that follow log a pixel entry (sent or dropped) or a capi entry,
\* up to MaxOverflow entries more than a response holds.
InitQuery ==
  /\ now = API_EVENTS_LIMIT - 1
  /\ EVENT_LOG = LoggedBefore(now)
  /\ COUNTS = [sent |-> [c \in Channels |-> IF c = "capi" THEN now ELSE 0],
               sent_name |-> [k \in Channels \X (EventNames \cup Ga4Names) |->
                                IF k = <<"capi", "PageView">> THEN now ELSE 0],
               errors |-> 0]
  /\ DEDUP = [pixel_ids |-> {}, capi_ids |-> {}, matched |-> 0, pixel_only |-> 0, capi_only |-> 0]
  /\ CONFIG = DEFAULT_CONFIG
  /\ env = [capi_ready |-> FALSE]
  /\ InitBrowser
  /\ InitRuns
  /\ InitControl

QueryPixelBodies == [event_name : {"Purchase"}, event_id : {rid(1)}, dropped : BOOLEAN]
QuerySimEvents == [event_type : {"purchase"}, event_id : {rid(1)}]
\* Queries: no filter, one channel, channel and name and success, another
\* channel and name, the failures.
QueryArgs ==
  {<<"", "", "">>, <<"capi", "", "">>, <<"capi", "PageView", "1">>,
   <<"pixel", "Purchase", "">>, <<"", "", "0">>}

query_metrics_pixel ==
  /\ now < API_EVENTS_LIMIT + MaxOverflow
  /\ \E body \in QueryPixelBodies : metrics_pixel(body)
  /\ UNCHANGED <<browser, run, sim, uid_n, control>>

query_ingest ==
  /\ now < API_EVENTS_LIMIT + MaxOverflow
  /\ \E sim_event \in QuerySimEvents : ingest(sim_event)
  /\ UNCHANGED <<browser, run, sim, uid_n, control>>

query_api_events == \E q \in QueryArgs : request_api_events(q[1], q[2], q[3])

NextQuery ==
  \/ query_metrics_pixel
  \/ query_ingest
  \/ query_api_events

SpecQuery == InitQuery /\ [][NextQuery]_vars

\* ------------------------------------------------------------------ SpecMap: the mapped payload
\* POST /ingest with a body the mapper reads in full: the answer is 200 once
\* the mapped events (sent) went through the sinks, or 500 with the error when
\* anything raised.
ingest_event(e) ==
  /\ IF sim_event_raises(e, CONFIG)
     THEN /\ http' = [op |-> "ingest", status |-> 500, running |-> FALSE, rps |-> 0,
                      prev |-> http.op, e |-> e, sent |-> << >>]
          /\ UNCHANGED <<telemetry, CONFIG, env, pending>>
     ELSE /\ ingest([event_type |-> Get(e, "event_type", ""),
                     event_id |-> Get(e, "event_id", None)])
          /\ http' = [op |-> "ingest", status |-> 200, running |-> FALSE, rps |-> 0,
                      prev |-> http.op, e |-> e, sent |-> sim_event_to_capi(e, CONFIG)]

\* The events the funnel sends, each with a session currency of its own ...
Line(pid, qty, price) == [product_id |-> pid, qty |-> qty, price |-> price]
Without(r, k) == [x \in DOMAIN r \ {k} |-> r[x]]
SimBase(et) ==
  [event_type |-> et, event_id |-> rid(2), timestamp |-> Iso(1000),
   context |-> [currency |-> JText("GBP")]]
WellFormed ==
  {SimBase("page_view"),
   SimBase("product_view") @@ [product |-> [product_id |-> "SKU-1", price |-> JNum(2500)]],
   SimBase("add_to_cart") @@ [line_item |-> Line("SKU-1", JNum(2), JNum(2500))],
   SimBase("begin_checkout")
     @@ [cart |-> JListOf(<<Line("SKU-1", JNum(2), JNum(2500))>>), total |-> JNum(5400)],
   SimBase("purchase")
     @@ [items |-> JListOf(<<Line("SKU-1", JNum(2), JNum(2500)), Line("SKU-2", JNum(1), JNum(900))>>),
         total |-> JNum(6372)],
   SimBase("refund")}
\* ... and bodies a client can post: no session context, a session without a
\* currency, a null cart; no timestamp, a timestamp that is no date, no
\* product, a price that is no number or null, no line item, no cart, a cart
\* line without a price.
Malformed ==
  {Without(SimBase("product_view"), "context")
     @@ [product |-> [product_id |-> "SKU-1", price |-> JNumStr(2500)]],
   [SimBase("product_view") EXCEPT !.context = [currency |-> JNull]]
     @@ [product |-> [product_id |-> "SKU-1", price |-> JNum(2500)]],
   SimBase("begin_checkout") @@ [cart |-> JNull],
   Without(SimBase("page_view"), "timestamp"),
   [SimBase("page_view") EXCEPT !.timestamp = JStr],
   SimBase("product_view"),
   SimBase("product_view") @@ [product |-> [product_id |-> "SKU-1", price |-> JStr]],
   SimBase("product_view") @@ [product |-> [product_id |-> "SKU-1", price |-> JNull]],
   SimBase("add_to_cart"),
   SimBase("begin_checkout"),
   SimBase("purchase")
     @@ [items |-> JListOf(<<[product_id |-> "SKU-1", qty |-> JNum(1)]>>), total |-> JNum(100)]}
MapEvents == WellFormed \cup Malformed

\* Every override mode with every mismatch target and null-injection flag,
\* and the other mutators of the payload one at a time.
MapConfigs ==
  {[DEFAULT_CONFIG EXCEPT !.currency_override = ov, !.mismatch_currency = mm,
                          !.null_currency = nc, !.null_price = np] :
     ov \in {"AUTO", "NULL", "EUR"}, mm \in MismatchModes, nc \in BOOLEAN, np \in BOOLEAN}
  \cup {[DEFAULT_CONFIG EXCEPT !.schema_str_numbers = TRUE, !.null_price = np,
                               !.clock_skew_seconds = 30] : np \in BOOLEAN}
  \cup {[DEFAULT_CONFIG EXCEPT !.schema_remove_contents = TRUE, !.null_price = TRUE],
        [DEFAULT_CONFIG EXCEPT !.schema_empty_arrays = TRUE, !.schema_unknown_fields = TRUE,
                               !.null_event_id = TRUE, !.null_currency = TRUE]}

InitMap ==
  /\ InitTelemetry
  /\ CONFIG \in MapConfigs
  /\ env = [capi_ready |-> FALSE]
  /\ InitBrowser
  /\ InitRuns
  /\ InitControl

request_ingest_event ==
  /\ now < MaxIngests
  /\ \E e \in MapEvents : ingest_event(e)
  /\ UNCHANGED <<browser, run, sim, uid_n, sched, cfgw>>

NextMap == request_ingest_event
SpecMap == InitMap /\ [][NextMap]_vars

\* ------------------------------------------------------------------ SpecSeed: the seeded generator
\* _rng is one random.Random() of the process.  env.rng is the seed it was
\* last seeded with and the number of draws made since: with a seed set, the
\* n-th draw after reseed() is a function of the seed and n alone (Stream, in
\* percent); seeded from the system time (seed ""), a draw is any value.
SeedTable == <<12, 83, 47, 5, 66, 91, 28, 74, 39, 55, 17, 98, 61, 33, 8, 70, 44, 89, 23, 52>>
Stream(seed, n) ==
  (SeedTable[((n - 1) % Len(SeedTable)) + 1] + (IF seed = "s1" THEN 0 ELSE 31)) % 100
\* reseed(): (CONFIG.get("seed") or "").strip() seeds the generator anew.
reseed(cfg) == [seed |-> Get(cfg, "seed", ""), pos |-> 0]
\* The values the k-th draw from now can take, and the generator after k draws.
DrawAt(k) == IF env.rng.seed = "" THEN Draws ELSE {Stream(env.rng.seed, env.rng.pos + k)}
Drawn(k) == IF env.rng.seed = "" THEN env ELSE [env EXCEPT !.rng.pos = @ + k]

\* POST /config/seed: CONFIG["seed"] = seed, then reseed().
set_seed_reseed(seed) ==
  /\ CONFIG_LOCK_free
  /\ CONFIG' = SetKey(CONFIG, "seed", seed)
  /\ env' = [env EXCEPT !.rng = reseed(CONFIG')]
  /\ http' = Response("set_seed", 200, FALSE, 0)
  /\ UNCHANGED <<telemetry, pending, browser, run, sim, uid_n, sched, cfgw>>

\* POST /mirror/pixel with the generator in view: capi_post draws
\* rand_uniform(0.0, 1.0) once it is past its enable_capi and credentials
\* tests.
CapiDraws(cfg) == IF cfg.enable_capi /\ env.capi_ready THEN 1 ELSE 0
\* The network answers every request of these runs.
SeedNets == {"ok"}
seeded_mirror_pixel(body) ==
  /\ \E u \in DrawAt(1), net \in SeedNets :
       LET o == CapiOutcome(CONFIG, env.capi_ready, u, net)
       IN _log_event("capi", body.event_name, o.ok, body.event_id, o.resp)
  /\ env' = Drawn(CapiDraws(CONFIG))
  /\ UNCHANGED <<CONFIG, pending>>

\* _make_product(cfg): the product index from randint(0, size - 1) and the
\* price from rand_triangular, which grows with its draw (a straight line
\* here).
ProductOf(cfg, u) == (u * Max(1, Get(cfg, "product_catalog_size", 200))) \div 100
PriceOf(cfg, u) ==
  cfg.price_min + ((Max(cfg.price_min + 1, cfg.price_max) - cfg.price_min) * u) \div 100
\* rand_choice([1, 1, 1, 2]).
QtyOf(u) == IF u < 75 THEN 1 ELSE 2

\* What a run chose: its product and price, its quantity once it added to the
\* cart, and the stages it went through.
Outcome(r) == [product |-> r.product, price |-> r.price, qty |-> r.qty, stages |-> r.stages]

\* One stage of a seeded run: the k-th draw from now is capi_post's.
SeededEmit(et, next_pc, k) ==
  /\ \E u \in DrawAt(k), net \in SeedNets :
       _send_one_through_sinks_net("auto", _event_base(et, uid_n + 1), run.cfg, u, net)
  /\ uid_n' = uid_n + 1
  /\ env' = Drawn(k - 1 + CapiDraws(run.cfg))

\* _auto_loop's next iteration: the snapshot, then _send_simulated_session_once.
\* fresh tells whether the generator was just seeded, last the outcome of the
\* run before this one.
seeded_begin ==
  /\ run.pc \in {"idle", "done"}
  /\ run.n < MaxRuns
  /\ CONFIG.enable_capi
  /\ run' = [pc |-> "make", stages |-> << >>, cfg |-> CONFIG, n |-> run.n + 1,
             product |-> 0, price |-> 0, qty |-> 0,
             fresh |-> env.rng.seed # "" /\ env.rng.pos = 0,
             last |-> [outcome |-> Outcome(run), cfg |-> run.cfg, fresh |-> run.fresh]]
  /\ UNCHANGED <<telemetry, CONFIG, env, pending, browser, sim, uid_n, control>>

\* _make_session (six draws), _make_product (three: index, price, category)
\* and the page of the page_view (one), all drawn before the first event is
\* sent.
seeded_make ==
  /\ run.pc = "make"
  /\ \E u \in DrawAt(7), v \in DrawAt(8) :
       run' = [run EXCEPT !.pc = "page_view", !.product = ProductOf(run.cfg, u),
                          !.price = PriceOf(run.cfg, v)]
  /\ env' = Drawn(10)
  /\ UNCHANGED <<telemetry, CONFIG, pending, browser, sim, uid_n, control>>

seeded_page_view ==
  /\ run.pc = "page_view"
  /\ SeededEmit("page_view", "product_view", 1)
  /\ run' = [run EXCEPT !.pc = "product_view", !.stages = Append(@, "page_view")]
  /\ UNCHANGED <<CONFIG, browser, sim, control>>

seeded_product_view ==
  /\ run.pc = "product_view"
  /\ SeededEmit("product_view", "add_to_cart?", 1)
  /\ run' = [run EXCEPT !.pc = "add_to_cart?", !.stages = Append(@, "product_view")]
  /\ UNCHANGED <<CONFIG, browser, sim, control>>

\* _rng.random() < cfg["p_add_to_cart"], then the quantity, then the event.
seeded_add_to_cart ==
  /\ run.pc = "add_to_cart?"
  /\ \E u \in DrawAt(1) :
       IF u < run.cfg.p_add_to_cart
       THEN /\ SeededEmit("add_to_cart", "begin_checkout?", 3)
            /\ \E q \in DrawAt(2) :
                 run' = [run EXCEPT !.pc = "begin_checkout?", !.qty = QtyOf(q),
                                    !.stages = Append(@, "add_to_cart")]
       ELSE /\ pending["auto"] = << >>
            /\ run' = [run EXCEPT !.pc = "done"]
            /\ env' = Drawn(1)
            /\ UNCHANGED <<telemetry, pending, uid_n>>
  /\ UNCHANGED <<CONFIG, browser, sim, control>>

\* The begin_checkout draw, then a shipping option when the subtotal is under
\* the free-shipping threshold and there are options.
ShippingDraws(r) ==
  IF r.qty * r.price >= r.cfg.free_shipping_threshold \/ r.cfg.shipping_options = << >>
  THEN 0 ELSE 1
seeded_begin_checkout ==
  /\ run.pc = "begin_checkout?"
  /\ \E u \in DrawAt(1) :
       IF u < run.cfg.p_begin_checkout
       THEN /\ SeededEmit("begin_checkout", "purchase?", 2 + ShippingDraws(run))
            /\ run' = [run EXCEPT !.pc = "purchase?", !.stages = Append(@, "begin_checkout")]
       ELSE /\ pending["auto"] = << >>
            /\ run' = [run EXCEPT !.pc = "done"]
            /\ env' = Drawn(1)
            /\ UNCHANGED <<telemetry, pending, uid_n>>
  /\ UNCHANGED <<CONFIG, browser, sim, control>>

\* The purchase draw, then the payment method, then the event.
seeded_purchase ==
  /\ run.pc = "purchase?"
  /\ \E u \in DrawAt(1) :
       IF u < run.cfg.p_purchase
       THEN /\ SeededEmit("purchase", "done", 3)
            /\ run' = [run EXCEPT !.pc = "done", !.stages = Append(@, "purchase")]
       ELSE /\ pending["auto"] = << >>
            /\ run' = [run EXCEPT !.pc = "done"]
            /\ env' = Drawn(1)
            /\ UNCHANGED <<telemetry, pending, uid_n>>
  /\ UNCHANGED <<CONFIG, browser, sim, control>>

\* The process after POST /config/seed {"seed": "s1"}, CAPI configured.
RunSeeds == {"s1", "s2"}
InitSeed ==
  /\ InitTelemetry
  /\ CONFIG = [DEFAULT_CONFIG EXCEPT !.seed = "s1"]
  /\ env = [capi_ready |-> TRUE, rng |-> reseed(CONFIG)]
  /\ InitBrowser
  /\ run = [pc |-> "idle", stages |-> << >>, cfg |-> CONFIG, n |-> 0,
            product |-> 0, price |-> 0, qty |-> 0, fresh |-> FALSE,
            last |-> [outcome |-> [product |-> 0, price |-> 0, qty |-> 0, stages |-> << >>],
                      cfg |-> CONFIG, fresh |-> FALSE]]
  /\ sim = [pc |-> "idle", stages |-> << >>, cart |-> << >>, n |-> 0]
  /\ uid_n = 0
  /\ pending = [t \in Threads |-> << >>]
  /\ InitControl

\* Seeds are set between runs; a mirrored pixel event arrives at any time.
request_reseed ==
  /\ run.pc \in {"idle", "done"}
  /\ run.n < MaxRuns
  /\ \E seed \in RunSeeds : set_seed_reseed(seed)
request_seeded_mirror ==
  /\ Len(SelectSeq(EVENT_LOG, LAMBDA x : x.event_id = rid(1))) < MaxMirrors
  /\ seeded_mirror_pixel([event_name |-> "Purchase", event_id |-> rid(1)])
  /\ UNCHANGED <<browser, run, sim, uid_n, control>>

NextSeed ==
  \/ request_reseed
  \/ request_seeded_mirror
  \/ seeded_begin
  \/ seeded_make
  \/ seeded_page_view
  \/ seeded_product_view
  \/ seeded_add_to_cart
  \/ seeded_begin_checkout
  \/ seeded_purchase
SpecSeed == InitSeed /\ [][NextSeed]_vars

\* ------------------------------------------------------------------ SpecAuth: the Basic Auth middleware
\* Paths, header values, user names and passwords are sequences of
\* characters, so that startswith, the "Basic " prefix and split(":", 1) are
\* computed character by character.
StartsWith(s, p) == Len(s) >= Len(p) /\ SubSeq(s, 1, Len(p)) = p
EndsWith(s, p) == Len(s) >= Len(p) /\ SubSeq(s, Len(s) - Len(p) + 1, Len(s)) = p
Colon == <<":">>
BasicPrefix == <<"B", "a", "s", "i", "c", " ">>

\* BasicAuthMiddleware._is_exempt(path): an exact entry, or an entry ending in
\* "/*" whose text up to and including the slash starts the path.
\* (_is_exempt_noslash drops the slash as well: p[:-2].)
_is_exempt_noslash(mw, path) ==
  \/ path \in mw.exempt_paths
  \/ \E p \in mw.exempt_paths :
       EndsWith(p, <<"/", "*">>) /\ StartsWith(path, SubSeq(p, 1, Len(p) - 2))
_is_exempt(mw, path) ==
  \/ path \in mw.exempt_paths
  \/ \E p \in mw.exempt_paths :
       EndsWith(p, <<"/", "*">>) /\ StartsWith(path, SubSeq(p, 1, Len(p) - 1))

\* An Authorization header: absent, or a scheme followed by a payload that
\* base64.b64decode(...).decode("utf-8") turns into text or raises on.
NoHeader == [present |-> FALSE, scheme |-> << >>, decodes |-> FALSE, text |-> << >>]
Header(scheme, decodes, text) ==
  [present |-> TRUE, scheme |-> scheme, decodes |-> decodes, text |-> text]
\* decoded.split(":", 1): the text before and after the first colon.
ColonAt(s) == CHOOSE i \in 1..Len(s) : s[i] = ":" /\ \A j \in 1..(i - 1) : s[j] # ":"
HasColon(s) == \E i \in 1..Len(s) : s[i] = ":"
UserOf(s) == SubSeq(s, 1, ColonAt(s) - 1)
PwOf(s) == SubSeq(s, ColonAt(s) + 1, Len(s))

\* BasicAuthMiddleware.__call__(environ, start_response): TRUE when the
\* wrapped application is called, FALSE when _challenge answers 401.
\* (_call_anyscheme does not test the "Basic " prefix.)
_call_anyscheme(mw, path, h) ==
  IF ~mw.enabled THEN TRUE
  ELSE IF _is_exempt(mw, IF path = << >> THEN <<"/">> ELSE path) THEN TRUE
  ELSE IF ~h.present \/ h.scheme = << >> THEN FALSE
  ELSE IF ~h.decodes THEN FALSE
  ELSE IF ~HasColon(h.text) THEN FALSE
  ELSE UserOf(h.text) = mw.username /\ PwOf(h.text) = mw.password
_call(mw, path, h) ==
  IF ~mw.enabled THEN TRUE
  ELSE IF _is_exempt(mw, IF path = << >> THEN <<"/">> ELSE path) THEN TRUE
  ELSE IF ~h.present \/ h.scheme # BasicPrefix THEN FALSE
  ELSE IF ~h.decodes THEN FALSE
  ELSE IF ~HasColon(h.text) THEN FALSE
  ELSE UserOf(h.text) = mw.username /\ PwOf(h.text) = mw.password

\* One request through wsgi.app: the application answers it (here a route
\* that changes nothing), or the middleware answers 401.
wsgi_request(path, h) ==
  /\ http' = [op |-> "wsgi", status |-> IF _call(env.auth, path, h) THEN 200 ELSE 401,
              running |-> FALSE, rps |-> 0, prev |-> http.op,
              path |-> path, header |-> h, app |-> _call(env.auth, path, h)]
  /\ UNCHANGED <<telemetry, CONFIG, env, pending, browser, run, sim, uid_n, sched, cfgw>>

\* wsgi.py's environment: BASIC_AUTH_ENABLED, the credentials, and
\* BASIC_AUTH_EXEMPT as its default, as a prefix entry, or empty.
PathHealthz == <<"/", "h">>
PathVersion == <<"/", "v">>
AuthUsers == {<<"u">>, << >>}
AuthPasswords == {<<"p">>, <<"p", ":", "q">>, << >>}
AuthExempt == {{PathHealthz, PathVersion}, {<<"/", "a", "/", "*">>}, {}}
AuthPaths ==
  {PathHealthz, <<"/", "h", "x">>, <<"/", "a", "/", "e">>, <<"/", "a">>, <<"/", "a", "b">>,
   <<"/">>, << >>}
AuthHeaders ==
  {NoHeader,
   Header(BasicPrefix, TRUE, <<"u", ":", "p">>),
   Header(BasicPrefix, TRUE, <<"u", ":", "p", ":", "q">>),
   Header(BasicPrefix, TRUE, <<"u", ":", "x">>),
   Header(BasicPrefix, TRUE, <<":">>),
   Header(BasicPrefix, TRUE, <<"u", "p">>),
   Header(BasicPrefix, FALSE, << >>),
   Header(<<"b", "a", "s", "i", "c", " ">>, TRUE, <<"u", ":", "p">>),
   Header(<<"B", "e", "a", "r", "e", "r", " ">>, TRUE, <<"u", ":", "p">>)}

InitAuth ==
  /\ InitTelemetry
  /\ CONFIG = DEFAULT_CONFIG
  /\ env \in [capi_ready : {FALSE},
              auth : [enabled : BOOLEAN, username : AuthUsers, password : AuthPasswords,
                      exempt_paths : AuthExempt]]
  /\ InitBrowser
  /\ InitRuns
  /\ InitControl

request_wsgi == \E path \in AuthPaths, h \in AuthHeaders : wsgi_request(path, h)
NextAuth == request_wsgi
SpecAuth == InitAuth /\ [][NextAuth]_vars

\* ------------------------------------------------------------------ SpecValue: the value mismatch
\* Math.random(), in ten-thousandths.
MathRandom == {0, 500, 5000, 9500, 9995}
\* maybeMismatchValue(val): val in cents (or null), pct the mismatch_value_pct
\* field in percent, u the draw of randBetween(-delta, delta).  The sum is
\* computed in ten-thousandths of a cent and Math.round takes it to the
\* nearest cent, halves upwards.
\* (maybeMismatchValue_ceil rounds with Math.ceil.)
Perturbed(val, pct, u) == val * 10000 - val * pct * 100 + (2 * u * val * pct) \div 100
maybeMismatchValue_ceil(val, pct, u) ==
  IF pct = 0 \/ ~PyTruthy(val) THEN val
  ELSE JNum((Perturbed(val.n, pct, u) + 9999) \div 10000)
maybeMismatchValue(val, pct, u) ==
  IF pct = 0 \/ ~PyTruthy(val) THEN val
  ELSE JNum((Perturbed(val.n, pct, u) + 5000) \div 10000)

\* sendPixel, as far as the value goes: `intended` is a copy of the payload
\* taken first; payload.value is then replaced, and that one payload goes to
\* fbq, to /metrics/pixel as `sent` and, with the mirror on, to /mirror/pixel,
\* which copies payload.value into custom_data.
sendPixel_value(val) ==
  /\ dom.ENABLE_PIXEL
  /\ \E u \in MathRandom :
       LET sent == maybeMismatchValue(val, dom.mismatch_value_pct, u)
       IN px' = [px EXCEPT !.intended = val, !.sent = sent, !.n = 1,
                            !.mirror = IF dom.mirror_to_capi THEN sent ELSE Absent]
  /\ UNCHANGED <<telemetry, CONFIG, env, pending, dom, win, run, sim, uid_n, control>>

\* Payload values: nothing, a few cents, a price, a total; null under
\* null_price.  Fractions typed into the field, in percent.
PixelValues ==
  {JNum(0), JNum(12), JNum(30), JNum(999), JNum(1999), JNum(2500), JNull}
MismatchPcts == {0, 1, 5, 15, 40}
InitValue ==
  /\ InitTelemetry
  /\ CONFIG = DEFAULT_CONFIG
  /\ env = [capi_ready |-> FALSE]
  /\ dom \in [ENABLE_PIXEL : {TRUE}, desync_event_id : {FALSE}, duplicate_event_id_n : {0},
              drop_pixel_every_n : {0}, mirror_to_capi : BOOLEAN,
              mismatch_value_pct : MismatchPcts]
  /\ win = [pxCount |-> 0, dupeIdx |-> 0, lastPxEid |-> None, rid_n |-> 0]
  /\ px = [pc |-> "idle", event_name |-> "", event_id |-> None,
           intended |-> JNull, sent |-> JNull, mirror |-> JNull, n |-> 0]
  /\ InitRuns
  /\ InitControl

request_sendPixel_value == \E val \in PixelValues : sendPixel_value(val)
NextValue == request_sendPixel_value
SpecValue == InitValue /\ [][NextValue]_vars

\* ------------------------------------------------------------------ SpecCheckout: carts and checkout economics
\* round(n / d): the nearest whole number; a tie falls to either side,
\* depending on the binary float the product happens to be.
Rounded(n, d) ==
  IF 2 * (n % d) = d THEN {n \div d, n \div d + 1} ELSE {(2 * n + d) \div (2 * d)}
Range(s) == {s[i] : i \in 1..Len(s)}

\* The payload of a begin_checkout or purchase event, in cents.
NoLine == [product_id |-> "", qty |-> 0, price |-> 0]
NoPay == [sent |-> FALSE, cart |-> << >>, subtotal |-> 0, shipping |-> 0, tax |-> 0, total |-> 0]
Pay(cart, subtotal, shipping, tax) ==
  [sent |-> TRUE, cart |-> cart, subtotal |-> subtotal, shipping |-> shipping, tax |-> tax,
   total |-> subtotal + shipping + tax]

\* app.py: shipping is 0.0 from the free-shipping threshold on, else
\* rand_choice(cfg["shipping_options"]), or 0.0 when there are no options;
\* tax = round(cfg["tax_rate"] * subtotal, 2).
app_shipping(cfg, subtotal) ==
  IF subtotal >= cfg.free_shipping_threshold \/ cfg.shipping_options = << >> THEN {0}
  ELSE Range(cfg.shipping_options)
app_tax(cfg, subtotal) == Rounded(cfg.tax_rate * subtotal, 100)
\* simulate_store.py: threshold 75, options 4.99 / 6.99 / 9.99, and tax
\* round(0.08 * subtotal, 2) for sessions in the US and CA, 0.0 elsewhere.
script_shipping(subtotal) == IF subtotal >= 7500 THEN {0} ELSE {499, 699, 999}
script_tax(country, subtotal) ==
  IF country \in {"US", "CA"} THEN Rounded(8 * subtotal, 100) ELSE {0}

\* One event of a checkout run through the sinks, from thread t.
CoSend(t, et) ==
  /\ _send_one_through_sinks(t, _event_base(et, uid_n + 1), run.cfg)
  /\ uid_n' = uid_n + 1

\* _send_simulated_session_once with the product, the line and the payloads
\* in view.  The product's price is _make_product's.
CoPrices == {625, 1000, 6899}
co_begin ==
  /\ run.pc \in {"idle", "done"}
  /\ run.n < MaxCheckouts
  /\ sim.sc.steps = << >>
  /\ CONFIG.enable_capi
  /\ \E price \in CoPrices :
       run' = [pc |-> "page_view", stages |-> << >>, cfg |-> CONFIG, n |-> run.n + 1,
               price |-> price, line |-> NoLine, bc |-> NoPay, pu |-> NoPay]
  /\ UNCHANGED <<telemetry, CONFIG, env, pending, browser, sim, uid_n, control>>

co_add_to_cart ==
  /\ run.pc = "add_to_cart?"
  /\ \E u \in Draws, qty \in {1, 2} :
       IF u < run.cfg.p_add_to_cart
       THEN /\ CoSend("auto", "add_to_cart")
            /\ run' = [run EXCEPT !.pc = "begin_checkout?", !.stages = Append(@, "add_to_cart"),
                                  !.line = [product_id |-> "SKU", qty |-> qty, price |-> run.price]]
       ELSE /\ pending["auto"] = << >>
            /\ run' = [run EXCEPT !.pc = "done"]
            /\ UNCHANGED <<telemetry, pending, uid_n>>
  /\ UNCHANGED <<CONFIG, env, browser, sim, control>>

co_begin_checkout ==
  /\ run.pc = "begin_checkout?"
  /\ \E u \in Draws :
       IF u < run.cfg.p_begin_checkout
       THEN LET subtotal == run.line.qty * run.line.price
            IN /\ CoSend("auto", "begin_checkout")
               /\ \E shipping \in app_shipping(run.cfg, subtotal),
                     tax \in app_tax(run.cfg, subtotal) :
                    run' = [run EXCEPT !.pc = "purchase?",
                                       !.stages = Append(@, "begin_checkout"),
                                       !.bc = Pay(<<run.line>>, subtotal, shipping, tax)]
       ELSE /\ pending["auto"] = << >>
            /\ run' = [run EXCEPT !.pc = "done"]
            /\ UNCHANGED <<telemetry, pending, uid_n>>
  /\ UNCHANGED <<CONFIG, env, browser, sim, control>>

\* The purchase event is built from the variables of the begin_checkout.
co_purchase ==
  /\ run.pc = "purchase?"
  /\ \E u \in Draws :
       IF u < run.cfg.p_purchase
       THEN /\ CoSend("auto", "purchase")
            /\ run' = [run EXCEPT !.pc = "done", !.stages = Append(@, "purchase"),
                                  !.pu = run.bc]
       ELSE /\ pending["auto"] = << >>
            /\ run' = [run EXCEPT !.pc = "done"]
            /\ UNCHANGED <<telemetry, pending, uid_n>>
  /\ UNCHANGED <<CONFIG, env, browser, sim, control>>

\* POST /scenario/run {"steps": [...]}: a thread runs _scenario_loop(steps)
\* under one snapshot, with one session and one product.  The runs of this
\* specification follow one another.
Step(kind, qty) == [kind |-> kind, qty |-> qty]
Scenarios ==
  {<<Step("add_to_cart", 2), Step("begin_checkout", 0), Step("purchase", 0)>>,
   <<Step("add_to_cart", 1), Step("begin_checkout", 0), Step("purchase", 0)>>,
   <<Step("wait", 0), Step("page_view", 0), Step("product_view", 0), Step("purchase", 0)>>}
scenario_start(scenarios) ==
  /\ sim.sc.n < MaxCheckouts
  /\ sim.sc.steps = << >>
  /\ run.pc \in {"idle", "done"}
  /\ \E steps \in scenarios, price \in CoPrices :
       sim' = [sim EXCEPT !.sc = [steps |-> steps, cfg |-> CONFIG, price |-> price,
                                   line |-> NoLine, bc |-> NoPay, pu |-> NoPay,
                                   n |-> sim.sc.n + 1]]
  /\ http' = Response("scenario_run", 200, FALSE, 0)
  /\ UNCHANGED <<telemetry, CONFIG, env, pending, browser, run, uid_n, sched, cfgw>>

scenario_run == scenario_start(Scenarios)

\* One step of _scenario_loop.  A begin_checkout or purchase step computes
\* its own cart (quantity 1) and its own shipping, tax and total.
scenario_step ==
  /\ sim.sc.steps # << >>
  /\ LET step == Head(sim.sc.steps)
         sc == sim.sc
         line == [product_id |-> "SKU", qty |-> 1, price |-> sc.price]
     IN CASE step.kind = "wait" ->
               /\ sim' = [sim EXCEPT !.sc.steps = Tail(@)]
               /\ UNCHANGED <<telemetry, pending, uid_n>>
          [] step.kind \in {"page_view", "product_view"} ->
               /\ _send_one_through_sinks("scenario", _event_base(step.kind, uid_n + 1), sc.cfg)
               /\ uid_n' = uid_n + 1
               /\ sim' = [sim EXCEPT !.sc.steps = Tail(@)]
          [] step.kind = "add_to_cart" ->
               /\ _send_one_through_sinks("scenario", _event_base(step.kind, uid_n + 1), sc.cfg)
               /\ uid_n' = uid_n + 1
               /\ sim' = [sim EXCEPT !.sc.steps = Tail(@),
                                     !.sc.line = [product_id |-> "SKU", qty |-> step.qty,
                                                  price |-> sc.price]]
          [] OTHER ->
               /\ _send_one_through_sinks("scenario", _event_base(step.kind, uid_n + 1), sc.cfg)
               /\ uid_n' = uid_n + 1
               /\ \E shipping \in app_shipping(sc.cfg, sc.price), tax \in app_tax(sc.cfg, sc.price) :
                    sim' = [sim EXCEPT
                              !.sc.steps = Tail(@),
                              !.sc.bc = IF step.kind = "begin_checkout"
                                        THEN Pay(<<line>>, sc.price, shipping, tax) ELSE @,
                              !.sc.pu = IF step.kind = "purchase"
                                        THEN Pay(<<line>>, sc.price, shipping, tax) ELSE @]
  /\ UNCHANGED <<CONFIG, env, browser, run, control>>

\* simulate_store.py, simulate_one_session from the begin_checkout on: the
\* cart of one line, the session's country, and the event posted to /ingest.
Countries == {"US", "GB"}
script_begin_checkout ==
  /\ sim.n < MaxCheckouts
  /\ sim.sc.steps = << >> /\ run.pc \in {"idle", "done"}
  /\ \E price \in CoPrices, qty \in {1, 2}, country \in Countries :
       LET subtotal == qty * price
       IN \E shipping \in script_shipping(subtotal), tax \in script_tax(country, subtotal) :
            sim' = [sim EXCEPT !.n = @ + 1, !.country = country,
                               !.co = Pay(<<[product_id |-> "SKU", qty |-> qty, price |-> price]>>,
                                          subtotal, shipping, tax)]
  /\ ingest([event_type |-> "begin_checkout", event_id |-> _uid(uid_n + 1)])
  /\ uid_n' = uid_n + 1
  /\ UNCHANGED <<browser, run, control>>

InitCheckout ==
  /\ InitTelemetry
  /\ CONFIG = DEFAULT_CONFIG
  /\ env = [capi_ready |-> FALSE]
  /\ InitBrowser
  /\ run = [pc |-> "idle", stages |-> << >>, cfg |-> CONFIG, n |-> 0,
            price |-> 0, line |-> NoLine, bc |-> NoPay, pu |-> NoPay]
  /\ sim = [pc |-> "idle", stages |-> << >>, cart |-> << >>, n |-> 0,
            country |-> "", co |-> NoPay,
            sc |-> [steps |-> << >>, cfg |-> CONFIG, price |-> 0, line |-> NoLine,
                    bc |-> NoPay, pu |-> NoPay, n |-> 0]]
  /\ uid_n = 0
  /\ pending = [t \in Threads \cup {"scenario"} |-> << >>]
  /\ InitControl

NextCheckout ==
  \/ co_begin
  \/ session_page_view
  \/ session_product_view
  \/ co_add_to_cart
  \/ co_begin_checkout
  \/ co_purchase
  \/ scenario_run
  \/ scenario_step
SpecCheckout == InitCheckout /\ [][NextCheckout]_vars

\* The server's runs next to the script's.
NextScript ==
  \/ co_begin
  \/ session_page_view
  \/ session_product_view
  \/ co_add_to_cart
  \/ co_begin_checkout
  \/ co_purchase
  \/ script_begin_checkout
SpecScript == InitCheckout /\ [][NextScript]_vars

\* ------------------------------------------------------------------ SpecServer: the four server paths
\* The auto stream, POST /ingest, the scenario runner and POST /mirror/pixel
\* under one configuration: CAPI enabled or not, credentials present or not,
\* PageView killed or not.  p_add_to_cart is 0: an auto run ends after its
\* ViewContent.
ServerConfigs ==
  {[SchedConfig EXCEPT !.enable_capi = e, !.kill_event_types = k] :
     e \in BOOLEAN, k \in {{}, {"PageView"}}}
ServerEvents == [event_type : {"page_view", "purchase"}, event_id : {rid(2)}]
ServerBodies == [event_name : {"PageView", "Purchase"}, event_id : {rid(1)}]
ServerScenarios == {<<Step("wait", 0), Step("page_view", 0), Step("product_view", 0)>>}

InitServer ==
  /\ InitTelemetry
  /\ CONFIG \in ServerConfigs
  /\ env \in [capi_ready : BOOLEAN]
  /\ InitBrowser
  /\ run = [pc |-> "idle", stages |-> << >>, cfg |-> CONFIG, n |-> 0,
            price |-> 0, line |-> NoLine, bc |-> NoPay, pu |-> NoPay]
  /\ sim = [pc |-> "idle", stages |-> << >>, cart |-> << >>, n |-> 0,
            country |-> "", co |-> NoPay,
            sc |-> [steps |-> << >>, cfg |-> CONFIG, price |-> 0, line |-> NoLine,
                    bc |-> NoPay, pu |-> NoPay, n |-> 0]]
  /\ uid_n = 0
  /\ pending = [t \in Threads \cup {"scenario"} |-> << >>]
  /\ InitControl

server_ingest ==
  /\ now < MaxIngests
  /\ \E sim_event \in ServerEvents : ingest(sim_event)
  /\ UNCHANGED <<browser, run, sim, uid_n, control>>

server_mirror_pixel ==
  /\ now < MaxMirrors
  /\ \E body \in ServerBodies : mirror_pixel(body)
  /\ UNCHANGED <<browser, run, sim, uid_n, control>>

server_scenario_run == scenario_start(ServerScenarios)

NextServer ==
  \/ server_ingest
  \/ server_mirror_pixel
  \/ co_begin
  \/ session_page_view
  \/ session_product_view
  \/ co_add_to_cart
  \/ server_scenario_run
  \/ scenario_step
SpecServer == InitServer /\ [][NextServer]_vars

\* ------------------------------------------------------------------ SpecRange: the stored ranges
\* POST /auto/config with one bound of a range, or with both: prices and
\* predicted values in cents, cost fractions in percent.
RangePairs == {<<"price_min", "price_max">>, <<"cost_pct_min", "cost_pct_max">>,
               <<"pltv_min", "pltv_max">>}
RangeValues == {0, 50, 90, 20000, 70000}
RangeBodies ==
  {(p[i] :> JNum(v)) : p \in RangePairs, i \in {1, 2}, v \in RangeValues}
  \cup {(p[1] :> JNum(lo)) @@ (p[2] :> JNum(hi)) :
          p \in RangePairs, lo \in RangeValues, hi \in RangeValues}

request_range_config == \E body \in RangeBodies : auto_config_begin(body)

NextRange ==
  \/ request_range_config
  \/ auto_config_write
  \/ auto_config_return
SpecRange == InitConfig /\ [][NextRange]_vars

\* ------------------------------------------------------------------ SpecMargin: the margin of a cart
\* Amounts are in thousandths of the currency unit here (10 is one cent), so
\* that round(x, 2) is a rounding; cost fractions are in percent.
\* rand_uniform(a, b) with the draw u of _rng.random() in percent.
rand_uniform(a, b, u) ==
  LET lo == Min(a, b)
      hi == Max(a, b)
  IN lo + (u * (hi - lo)) \div 100
\* The fractions _rand_cost can draw: lo = max(0, cost_pct_min),
\* hi = max(lo, cost_pct_max).
cost_pcts(cfg) ==
  LET lo == Max(0, cfg.cost_pct_min)
      hi == Max(lo, cfg.cost_pct_max)
  IN {rand_uniform(lo, hi, u) : u \in Draws}
\* _rand_cost(price, cfg) for a price that float() accepted:
\* max(0.0, round(p * pct, 2)).
_rand_cost(p, cfg) ==
  UNION {{Max(0, 10 * r) : r \in Rounded(p * pct, 1000)} : pct \in cost_pcts(cfg)}
\* The try block of _margin_from_contents: float(c.get("item_price")) and
\* float(c.get("quantity", 1)); a line that raises is skipped.
line_skipped(c) ==
  \/ float_raises(c.item_price)
  \/ (c.quantity # Absent /\ float_raises(c.quantity))
line_qty(c) == IF c.quantity = Absent THEN 1 ELSE c.quantity.n
\* What one line adds to the total: max(0.0, price - cost) * max(0.0, qty).
\* Every comparison with NaN is false, so a NaN price adds 0.0.
\* (line_margin_noclamp leaves both max(0.0, .) out.)
line_margin_noclamp(c, cfg) ==
  IF line_skipped(c) \/ c.item_price.t = "nan" THEN {0}
  ELSE {(c.item_price.n - cost) * line_qty(c) : cost \in _rand_cost(c.item_price.n, cfg)}
line_margin(c, cfg) ==
  IF line_skipped(c) \/ c.item_price.t = "nan" THEN {0}
  ELSE {Max(0, c.item_price.n - cost) * Max(0, line_qty(c)) :
          cost \in _rand_cost(c.item_price.n, cfg)}
RECURSIVE margin_totals(_, _)
margin_totals(contents, cfg) ==
  IF contents = << >> THEN {0}
  ELSE {m + t : m \in line_margin(Head(contents), cfg), t \in margin_totals(Tail(contents), cfg)}
\* _margin_from_contents(contents, cfg): round(total, 2).
_margin_from_contents(contents, cfg) ==
  UNION {{10 * r : r \in Rounded(t, 10)} : t \in margin_totals(contents, cfg)}
\* append_margin_pltv with single_price: round(max(0.0, price - cost), 2), and
\* no margin when float(single_price) raises.
single_margin(price, cfg) ==
  IF float_raises(price) THEN {Absent}
  ELSE IF price.t = "nan" THEN {JNum(0)}
  ELSE UNION {{JNum(10 * r) : r \in Rounded(Max(0, price.n - cost), 10)} :
                cost \in _rand_cost(price.n, cfg)}

\* Lines of a cart: a price of 0.006, 25.00 or 68.99, a negative one, a
\* numeric string, NaN, null, a string that is no number, or none; a quantity
\* of 1 or 2, a negative one, none, or a string that is no number.
MarginPrices ==
  {JNum(6), JNum(25000), JNumStr(68990), JNum(0 - 5000), JNaN, JNull, JStr, Absent}
MarginQtys == {JNum(1), JNum(2), JNum(0 - 2), Absent, JStr}
MarginLines == [item_price : MarginPrices, quantity : MarginQtys]
\* Stored cost ranges: the default, [0, 0], [1, 1], and 0.9 above 0.8.
MarginConfigs ==
  {[DEFAULT_CONFIG EXCEPT !.cost_pct_min = r[1], !.cost_pct_max = r[2]] :
     r \in {<<40, 80>>, <<0, 0>>, <<100, 100>>, <<90, 80>>}}

InitMargin ==
  /\ InitTelemetry
  /\ CONFIG \in MarginConfigs
  /\ env = [capi_ready |-> FALSE]
  /\ InitBrowser
  /\ run = [pc |-> "idle", stages |-> << >>, cfg |-> CONFIG, n |-> 0]
  /\ \E n \in 1..MaxLines :
       sim \in [pc : {"idle"}, stages : {<< >>}, n : {0}, cart : {<< >>},
                contents : [1..n -> MarginLines], margin : {Absent}]
  /\ uid_n = 0
  /\ pending = [t \in Threads |-> << >>]
  /\ InitControl

\* append_margin_pltv(cd, cfg, contents=contents) of a cart event ...
margin_contents ==
  /\ sim.pc = "idle"
  /\ \E m \in _margin_from_contents(sim.contents, CONFIG) :
       sim' = [sim EXCEPT !.pc = "contents", !.margin = JNum(m)]
  /\ UNCHANGED <<telemetry, CONFIG, env, pending, browser, run, uid_n, control>>

\* ... and append_margin_pltv(cd, cfg, single_price=price) of a product view,
\* the price being the first line's.
margin_single ==
  /\ sim.pc = "idle"
  /\ \E m \in single_margin(sim.contents[1].item_price, CONFIG) :
       sim' = [sim EXCEPT !.pc = "single", !.margin = m]
  /\ UNCHANGED <<telemetry, CONFIG, env, pending, browser, run, uid_n, control>>

NextMargin ==
  \/ margin_contents
  \/ margin_single
SpecMargin == InitMargin /\ [][NextMargin]_vars

\* ------------------------------------------------------------------ SpecCollapse: the draws from a range
\* The three configured ranges and what is drawn from each: the cost
\* fraction of _rand_cost, the predicted value of append_margin_pltv and the
\* price of _make_product.
\* math.sqrt(n), rounded down, for n <= top * top.
Sqrt(n, top) == CHOOSE r \in 0..top : r * r <= n /\ n < (r + 1) * (r + 1)
\* rand_triangular(low, high, mode) with the draw u in percent; amounts in
\* ten-thousandths of the currency unit (100 is one cent).
rand_triangular(low, high, mode, u) ==
  IF u * (high - low) < 100 * (mode - low)
  THEN low + Sqrt((u * (high - low) * (mode - low)) \div 100, high - low)
  ELSE high - Sqrt(((100 - u) * (high - low) * (high - mode)) \div 100, high - low)
\* _make_product(cfg): lo = price_min, hi = max(price_min + 0.01, price_max),
\* the mode at 0.7 lo + 0.3 hi, and the price rounded to cents.
\* (make_price_collapsed takes hi = max(price_min, price_max).)
make_price_collapsed(cfg, u) ==
  LET lo == cfg.price_min * 100
      hi == Max(cfg.price_min * 100, cfg.price_max * 100)
  IN IF hi = lo THEN {cfg.price_min}
     ELSE Rounded(rand_triangular(lo, hi, (lo * 7 + hi * 3) \div 10, u), 100)
make_price(cfg, u) ==
  LET lo == cfg.price_min * 100
      hi == Max(cfg.price_min * 100 + 100, cfg.price_max * 100)
  IN Rounded(rand_triangular(lo, hi, (lo * 7 + hi * 3) \div 10, u), 100)
\* append_margin_pltv: lo = pltv_min, hi = pltv_max, `if hi < lo: hi = lo`,
\* and rand_uniform(lo, hi), in cents.
pltv_draw(cfg, u) ==
  LET lo == cfg.pltv_min
      hi == IF cfg.pltv_max < lo THEN lo ELSE cfg.pltv_max
  IN rand_uniform(lo, hi, u)

\* Stored ranges, ordered and not: cost fractions in percent, predicted
\* values and prices in cents (prices within a few cents of 2.00).
CollapseConfigs ==
  {[DEFAULT_CONFIG EXCEPT !.cost_pct_min = c[1], !.cost_pct_max = c[2],
                          !.pltv_min = v[1], !.pltv_max = v[2],
                          !.price_min = p[1], !.price_max = p[2]] :
     c \in {<<40, 80>>, <<90, 80>>, <<0, 0>>},
     v \in {<<12000, 60000>>, <<70000, 60000>>, <<100, 100>>},
     p \in {<<200, 205>>, <<200, 120>>, <<200, 200>>}}

InitCollapse ==
  /\ InitTelemetry
  /\ CONFIG \in CollapseConfigs
  /\ env = [capi_ready |-> FALSE]
  /\ InitBrowser
  /\ run = [pc |-> "idle", stages |-> << >>, cfg |-> CONFIG, n |-> 0]
  /\ sim = [pc |-> "idle", stages |-> << >>, cart |-> << >>, n |-> 0, drawn |-> 0]
  /\ uid_n = 0
  /\ pending = [t \in Threads |-> << >>]
  /\ InitControl

draw_cost_pct ==
  /\ sim.pc = "idle"
  /\ \E pct \in cost_pcts(CONFIG) : sim' = [sim EXCEPT !.pc = "cost_pct", !.drawn = pct]
  /\ UNCHANGED <<telemetry, CONFIG, env, pending, browser, run, uid_n, control>>

draw_pltv ==
  /\ sim.pc = "idle"
  /\ \E u \in Draws : sim' = [sim EXCEPT !.pc = "pltv", !.drawn = pltv_draw(CONFIG, u)]
  /\ UNCHANGED <<telemetry, CONFIG, env, pending, browser, run, uid_n, control>>

draw_price ==
  /\ sim.pc = "idle"
  /\ \E u \in Draws : \E price \in make_price(CONFIG, u) :
       sim' = [sim EXCEPT !.pc = "price", !.drawn = price]
  /\ UNCHANGED <<telemetry, CONFIG, env, pending, browser, run, uid_n, control>>

NextCollapse ==
  \/ draw_cost_pct
  \/ draw_pltv
  \/ draw_price
SpecCollapse == InitCollapse /\ [][NextCollapse]_vars

\* ------------------------------------------------------------------ SpecSchema: the schema toggles
\* Every combination of the four schema toggles, with and without null_price,
\* over the events of the funnel and a return.
SchemaToggles ==
  {"schema_remove_contents", "schema_empty_arrays", "schema_str_numbers",
   "schema_unknown_fields"}
SchemaConfigs ==
  {[k \in DOMAIN DEFAULT_CONFIG |->
      IF k \in SchemaToggles THEN k \in on
      ELSE IF k = "null_price" THEN np
      ELSE DEFAULT_CONFIG[k]] : on \in SUBSET SchemaToggles, np \in BOOLEAN}
SchemaEvents ==
  WellFormed \cup {SimBase("return_initiated") @@ [product_id |-> "SKU-1"]}

InitSchema ==
  /\ InitTelemetry
  /\ CONFIG \in SchemaConfigs
  /\ env = [capi_ready |-> FALSE]
  /\ InitBrowser
  /\ InitRuns
  /\ InitControl

request_schema_event ==
  /\ now < MaxIngests
  /\ \E e \in SchemaEvents : ingest_event(e)
  /\ UNCHANGED <<browser, run, sim, uid_n, sched, cfgw>>

NextSchema == request_schema_event
SpecSchema == InitSchema /\ [][NextSchema]_vars

\* ------------------------------------------------------------------ claims
IsPrefix(s, t) == Len(s) <= Len(t) /\ \A i \in 1..Len(s) : s[i] = t[i]
\* The pixel entries of EVENT_LOG, oldest first.
IsPixelEntry(e) == e.channel = "pixel"
PixelLog == SelectSeq([i \in 1..Len(EVENT_LOG) |-> EVENT_LOG[Len(EVENT_LOG) + 1 - i]], IsPixelEntry)

\* C1: in every funnel run (the auto thread's and the script's) the stages
\* generated so far are a prefix of page_view, product_view, add_to_cart,
\* begin_checkout, purchase; so a purchase always follows a begin_checkout.
C1_StagesArePrefix ==
  /\ IsPrefix(run.stages, FunnelOrder)
  /\ IsPrefix(sim.stages, FunnelOrder)
  /\ \A r \in {run.stages, sim.stages} :
       \A i \in 1..Len(r) : r[i] = "purchase" => \E j \in 1..(i - 1) : r[j] = "begin_checkout"
C1_Witness == run.pc = "done" /\ run.stages = FunnelOrder /\ run.n = 2

\* C2: the dedup counts /metrics returns are the sizes of the intersection and
\* of the two differences of the seen-id sets as they stand.
C2_SnapshotMatchesSets ==
  /\ metrics.matched = Cardinality(DEDUP.pixel_ids \cap DEDUP.capi_ids)
  /\ metrics.pixel_only = Cardinality(DEDUP.pixel_ids \ DEDUP.capi_ids)
  /\ metrics.capi_only = Cardinality(DEDUP.capi_ids \ DEDUP.pixel_ids)
C2_Witness ==
  /\ metrics.matched = 1 /\ metrics.capi_only = 1 /\ metrics.pixel_only = 0
  /\ \E i \in 1..Len(EVENT_LOG) : EVENT_LOG[i].event_id = _uid(1)

\* C3: matched never exceeds the smaller seen-id set, and each channel's
\* only-count plus matched is the size of that channel's set.
C3_MatchedBounded ==
  /\ DEDUP.matched <= Min(Cardinality(DEDUP.pixel_ids), Cardinality(DEDUP.capi_ids))
  /\ DEDUP.pixel_only + DEDUP.matched = Cardinality(DEDUP.pixel_ids)
  /\ DEDUP.capi_only + DEDUP.matched = Cardinality(DEDUP.capi_ids)
C3_Witness ==
  /\ DEDUP.matched = 1 /\ DEDUP.capi_only = 1
  /\ DEDUP.pixel_ids = {rid(1)} /\ DEDUP.capi_ids = {rid(1), rid(2)}

\* C4: logging a dropped browser attempt (a pixel entry whose response says
\* dropped) leaves the seen-id sets and the dedup counts as they were.
C4_DroppedNeverInserted ==
  [][(/\ now' = now + 1
      /\ EVENT_LOG'[1].channel = "pixel"
      /\ EVENT_LOG'[1].response.dropped) => DEDUP' = DEDUP]_vars

\* C5: logging an outcome whose event id is absent, null or empty leaves the
\* seen-id sets and the dedup counts as they were, on every channel.
C5_NullIdNeverInserted ==
  [][(now' = now + 1 /\ ~Truthy(EVENT_LOG'[1].event_id)) => DEDUP' = DEDUP]_vars
C5_Witness ==
  /\ Len(EVENT_LOG) = 3
  /\ EVENT_LOG[1].channel = "pixel" /\ EVENT_LOG[1].event_id = EmptyStr
  /\ EVENT_LOG[2].channel = "capi" /\ EVENT_LOG[2].event_id = None
  /\ DEDUP.pixel_only = 1

\* One entry of channel ch carrying event_id was put at the front of the log, and
\* a present id went into that channel's seen-id set and left the other alone.
LoggedOne(ch, event_id) ==
  /\ Len(EVENT_LOG') = Len(EVENT_LOG) + 1
  /\ Tail(EVENT_LOG') = EVENT_LOG
  /\ EVENT_LOG'[1].channel = ch
  /\ EVENT_LOG'[1].event_id = event_id
  /\ Truthy(event_id) =>
       IF ch = "pixel"
       THEN event_id \in DEDUP'.pixel_ids /\ DEDUP'.capi_ids = DEDUP.capi_ids
       ELSE event_id \in DEDUP'.capi_ids /\ DEDUP'.pixel_ids = DEDUP.pixel_ids
\* C6: every dispatch attempt, whatever its outcome, puts exactly one entry of
\* its channel at the front of the Event Log, and a present event id goes into
\* the seen-id set of that channel and of no other.
C6_EveryDispatchLogged ==
  [][/\ \A body \in PixelBodies : metrics_pixel(body) => LoggedOne("pixel", body.event_id)
     /\ \A body \in MirrorBodies : mirror_pixel(body) => LoggedOne("capi", body.event_id)
     /\ \A e \in SimEvents :
          (/\ ingest(e)
           /\ map_sim_event_to_capi(e, CONFIG) # << >>
           /\ CapiName(e.event_type) \notin CONFIG.kill_event_types)
          => LoggedOne("capi", map_sim_event_to_capi(e, CONFIG)[1].event_id)
     /\ (/\ Len(run'.stages) = Len(run.stages) + 1
         /\ CapiName(run'.stages[Len(run'.stages)]) \notin run.cfg.kill_event_types)
        => LoggedOne("capi", IF run.cfg.null_event_id THEN None ELSE _uid(uid_n + 1))]_vars
C6_Witness ==
  /\ Len(EVENT_LOG) = 3
  /\ EVENT_LOG[1].channel = "capi" /\ ~EVENT_LOG[1].ok /\ EVENT_LOG[1].event_id = rid(1)
  /\ EVENT_LOG[2].channel = "pixel" /\ ~EVENT_LOG[2].ok /\ EVENT_LOG[2].event_id = rid(1)
  /\ EVENT_LOG[3].channel = "capi" /\ EVENT_LOG[3].ok /\ EVENT_LOG[3].event_id = _uid(1)
  /\ DEDUP.capi_ids = {rid(1), _uid(1)} /\ DEDUP.pixel_ids = {rid(1)}

\* C7: the Event Log never holds more than EVENT_LOG_MAX entries and is kept
\* newest first; an append to a full log drops exactly the oldest entry and
\* keeps the others in their order.
C7_LogBounded ==
  /\ [](/\ Len(EVENT_LOG) <= EVENT_LOG_MAX
        /\ \A i \in 1..(Len(EVENT_LOG) - 1) : EVENT_LOG[i].ts > EVENT_LOG[i + 1].ts)
  /\ [][now' = now + 1 =>
          /\ EVENT_LOG'[1].ts = now'
          /\ IF Len(EVENT_LOG) = EVENT_LOG_MAX
             THEN /\ Len(EVENT_LOG') = EVENT_LOG_MAX
                  /\ \A i \in 2..EVENT_LOG_MAX : EVENT_LOG'[i] = EVENT_LOG[i - 1]
             ELSE Tail(EVENT_LOG') = EVENT_LOG]_vars
C7_Witness ==
  /\ Len(EVENT_LOG) = EVENT_LOG_MAX
  /\ EVENT_LOG[1].ts = EVENT_LOG_MAX + 2
  /\ EVENT_LOG[EVENT_LOG_MAX].ts = 3

\* C8: with drop_pixel_every_n = N > 0 the k-th browser attempt is dropped
\* exactly when N divides k, so every N consecutive attempts hold one drop;
\* every attempt is logged as a pixel entry, a dropped one with ok = false and
\* response.dropped = true; with N = 0 nothing is dropped.
C8_DropEveryNth ==
  LET a == PixelLog
      n == dom.drop_pixel_every_n
  IN /\ Len(a) = win.rid_n
     /\ \A k \in 1..Len(a) :
          /\ a[k].response.dropped = (n > 0 /\ k % n = 0)
          /\ a[k].ok = ~a[k].response.dropped
     /\ n > 0 => \A k \in 1..(Len(a) - n + 1) :
                   Cardinality({j \in k..(k + n - 1) : a[j].response.dropped}) = 1
C8_Witness ==
  /\ dom.drop_pixel_every_n = 3
  /\ Len(PixelLog) = 6
  /\ PixelLog[3].response.dropped /\ ~PixelLog[3].ok
  /\ {k \in 1..6 : PixelLog[k].response.dropped} = {3, 6}

\* C9: with duplicate_event_id_n = N > 0 the k-th browser event (k > 1) is
\* sent with the id the (k-1)-th was sent with exactly when N divides k, and
\* with its own fresh id otherwise; with N = 0 every event keeps its own id.
C9_DupEveryNth ==
  LET a == PixelLog
      n == dom.duplicate_event_id_n
  IN \A k \in 2..Len(a) :
       a[k].event_id = IF n > 0 /\ k % n = 0
                       THEN a[k - 1].event_id
                       ELSE maybeDesyncEventId(dom, rid(k))

\* C10: with desync_event_id on, the id of a pixel entry differs from the id
\* of the capi entry mirrored from the same sendPixel call (the entry logged
\* right after it), and nothing is counted as matched; with desync off (and
\* no duplication) the k-th pixel entry carries the k-th fresh id unchanged.
C10_DesyncNeverMatches ==
  /\ dom.desync_event_id =>
       /\ \A i \in 1..(Len(EVENT_LOG) - 1) :
            (EVENT_LOG[i].channel = "capi" /\ EVENT_LOG[i + 1].channel = "pixel")
            => EVENT_LOG[i].event_id # EVENT_LOG[i + 1].event_id
       /\ DEDUP.matched = 0
  /\ (~dom.desync_event_id /\ dom.duplicate_event_id_n = 0) =>
       \A k \in 1..Len(PixelLog) : PixelLog[k].event_id = rid(k)

\* C11: a start request that finds the scheduler running (a live _auto_thread)
\* changes neither the configuration nor the scheduler, and answers
\* running = true with the rate in force.
C11_StartWhileRunningNoOp ==
  [][\A q \in StartArgs :
       (auto_start(q) /\ is_alive(sched.auto_thread))
       => /\ CONFIG' = CONFIG
          /\ sched' = sched
          /\ http'.status = 200 /\ http'.running /\ http'.rps = CONFIG.rps]_vars

\* C12: a stop request that finds the scheduler stopped (stop flag set, no
\* thread handle) leaves the scheduler as it is; every stop request ends with
\* no thread handle and answers 200 with running = false.
C12_StopIdempotent ==
  [][/\ (auto_stop_set /\ sched.stop_evt /\ sched.auto_thread = NoThread)
        => /\ sched' = sched
           /\ http'.status = 200 /\ ~http'.running
     /\ ((auto_stop_set \/ auto_stop_join) /\ sched'.stop_pc = "idle")
        => /\ sched'.auto_thread = NoThread
           /\ http'.op = "auto_stop" /\ http'.status = 200 /\ ~http'.running]_vars
C12_Witness ==
  /\ http.op = "auto_stop" /\ http.prev = "auto_stop"
  /\ sched.stop_evt /\ sched.auto_thread = NoThread /\ sched.stop_pc = "idle"
  /\ sched.loop[1].pc = "exited"

\* C13: a loop that was alive when a stop was requested starts no further
\* iteration: at its next check it exits.
C13_StoppedLoopExits ==
  [][\A t \in LoopIds :
       (sched.loop[t].stop_seen /\ sched.loop[t].pc = "check")
       => sched'.loop[t].pc # "iter"]_vars

\* C14: no _auto_loop thread is ever ended by an exception.
C14_LoopNeverDies == \A t \in LoopIds : sched.loop[t].pc # "crashed"

\* C20: the delay a loop sleeps between sessions is that of a rate between
\* 0.1 and 10 sessions per second: 100 ms to 10 s.
C20_RateClamped ==
  \A t \in LoopIds : sched.loop[t].pc = "wait" => sched.loop[t].delay \in 100..10000

\* A capi entry was put at the front of the log by the step.
CapiLogged ==
  /\ Len(EVENT_LOG') = Len(EVENT_LOG) + 1
  /\ Tail(EVENT_LOG') = EVENT_LOG
  /\ EVENT_LOG'[1].channel = "capi"
\* capi_post gets as far as the network: CAPI enabled and configured, and the
\* draw u not below the simulated error rate.
ReachesNetwork(cfg, u) == cfg.enable_capi /\ env.capi_ready /\ u >= cfg.net_capi_error_rate
SimulatedFault(cfg, u) == cfg.enable_capi /\ env.capi_ready /\ u < cfg.net_capi_error_rate
StageEvents == {_event_base(FunnelOrder[i], uid_n + 1) : i \in 1..Len(FunnelOrder)}
\* The step sent stage event e of the run to the sinks, and e is not killed.
Dispatched(e) ==
  /\ run'.stages = Append(run.stages, e.event_type)
  /\ CapiName(e.event_type) \notin run.cfg.kill_event_types

\* C15: when the network call of capi_post fails (HTTP error or transport
\* exception), mirror_pixel and _send_one_through_sinks log one capi entry with
\* ok = false and the error in its response, and the scheduler's loops are
\* left as they were: the loop stays in its iteration.
C15_FailureRecorded ==
  [][\A u \in Draws, net \in {"http_error", "exception"} :
       /\ \A body \in MirrorBodies :
            (mirror_pixel_net(body, u, net) /\ ReachesNetwork(CONFIG, u))
            => /\ CapiLogged
               /\ ~EVENT_LOG'[1].ok /\ "error" \in DOMAIN EVENT_LOG'[1].response
               /\ sched' = sched
       /\ \A e \in StageEvents :
            (/\ _send_one_through_sinks_net("auto", e, run.cfg, u, net)
             /\ Dispatched(e)
             /\ ReachesNetwork(run.cfg, u))
            => /\ CapiLogged
               /\ ~EVENT_LOG'[1].ok /\ "error" \in DOMAIN EVENT_LOG'[1].response
               /\ sched' = sched /\ is_alive(sched.owner)]_vars
C15_Witness ==
  /\ Len(EVENT_LOG) = 3
  /\ \A i \in 1..3 : EVENT_LOG[i].channel = "capi" /\ ~EVENT_LOG[i].ok
  /\ EVENT_LOG[1].event_name = "PageView" /\ EVENT_LOG[1].response = [error |-> "transport error"]
  /\ EVENT_LOG[2].event_name = "PageView"
  /\ EVENT_LOG[2].response = [error |-> "HTTP error", text |-> "upstream body"]
  /\ EVENT_LOG[3].event_name = "Purchase" /\ EVENT_LOG[3].response = [error |-> "transport error"]
  /\ run.n = 2 /\ sched.loop[1].pc = "iter"

\* C16: when the draw falls below net_capi_error_rate, no request is sent, the
\* entry logged has ok = false, and its response has the fields (error, text)
\* that the response of a real HTTP error has.
RealHttpErrorShape ==
  DOMAIN CapiOutcome([CONFIG EXCEPT !.net_capi_error_rate = 0], TRUE, 0, "http_error").resp
C16_SimulatedFaultShape ==
  [][\A u \in Draws, net \in NetResults :
       /\ \A body \in MirrorBodies :
            (mirror_pixel_net(body, u, net) /\ SimulatedFault(CONFIG, u))
            => /\ ~capi_post(CONFIG, env.capi_ready, u, net).sent
               /\ CapiLogged
               /\ ~EVENT_LOG'[1].ok
               /\ DOMAIN EVENT_LOG'[1].response = RealHttpErrorShape
               /\ RealHttpErrorShape = {"error", "text"}
       /\ \A e \in StageEvents :
            (/\ _send_one_through_sinks_net("auto", e, run.cfg, u, net)
             /\ Dispatched(e)
             /\ SimulatedFault(run.cfg, u))
            => /\ ~capi_post(run.cfg, env.capi_ready, u, net).sent
               /\ CapiLogged
               /\ ~EVENT_LOG'[1].ok
               /\ DOMAIN EVENT_LOG'[1].response = RealHttpErrorShape]_vars
C16_Witness ==
  /\ CONFIG.net_capi_error_rate = 50
  /\ Len(EVENT_LOG) = 2
  /\ EVENT_LOG[1].event_name = "PageView" /\ EVENT_LOG[2].event_name = "Purchase"
  /\ \A i \in 1..2 :
       /\ ~EVENT_LOG[i].ok
       /\ EVENT_LOG[i].response = [error |-> "503 Simulated", text |-> "Simulated upstream error"]

\* The body of a request to /auto/config applied in full to cfg: the statement
\* of every key of the body has run, a value the handler cannot take leaving
\* the key as it was.
RECURSIVE AppliedInFull(_, _, _)
AppliedInFull(cfg, body, todo) ==
  IF todo = << >> THEN cfg
  ELSE LET k == Head(todo)
           next == IF KeyRaises(cfg, k, body[k]) THEN cfg
                   ELSE SetKey(cfg, k, KeyValue(cfg, k, body[k]))
       IN AppliedInFull(next, body, Tail(todo))

\* C17: a snapshot taken after a request to /auto/config is the configuration
\* the request found or that configuration with the whole body applied, never
\* one with a part of the body applied.
C17_SnapshotsAtomic ==
  [][(cfgw'.snaps = cfgw.snaps + 1 /\ http.op = "auto_config")
       => cfgw'.snap \in {cfgw.before,
                          AppliedInFull(cfgw.before, cfgw.body, Todo(cfgw.body))}]_vars

\* The domain of a configuration field (the seed is any string).
FieldInDomain(k, x) ==
  CASE k \in BoolKeys -> x \in BOOLEAN
    [] k = "rps" -> x \in 1..100
    [] k \in {"p_add_to_cart", "p_begin_checkout", "p_purchase", "tax_rate",
              "cost_pct_min", "cost_pct_max"} -> x \in 0..100
    [] k \in {"price_min", "price_max"} -> x \in 0..100000000
    [] k = "currency_override" -> x \in _ALLOWED_CURRENCIES
    [] k = "shipping_options" -> x # << >> /\ \A i \in 1..Len(x) : x[i] >= 0
    [] k = "net_capi_error_rate" -> x \in 0..1000
    [] k = "duplicate_event_id_n" -> x >= 0
    [] k = "kill_event_types" -> x \subseteq KillNames
    [] OTHER -> TRUE

\* C18: every POST to /auto/config is answered 200, and each field of its body
\* then holds a value of the field's domain.
C18_NeverRejects ==
  [][(cfgw.lock = "auto_config" /\ cfgw'.lock = "")
       => /\ http'.status = 200
          /\ \A k \in DOMAIN cfgw.body :
               HasKey(CONFIG', k) /\ FieldInDomain(k, CONFIG'[k])]_vars

\* C19: CONFIG always holds every key of the boot configuration, each with a
\* value of its domain.
C19_ConfigAlwaysValid ==
  /\ DOMAIN CONFIG = DOMAIN DEFAULT_CONFIG
  /\ \A k \in DOMAIN CONFIG : FieldInDomain(k, CONFIG[k])

\* C27: at most one _auto_loop thread is alive at any time.
C27_OneLoopAlive == Cardinality({t \in LoopIds : is_alive(t)}) <= 1

\* Unix times of simulated events.
Timestamps == {100, 1000}
\* C30: a request to /auto/config that sets clock_skew_seconds to an integer s
\* stores s, and mapping then adds s to the event's timestamp.
C30_SignedSkew ==
  [][(/\ cfgw.lock = "auto_config" /\ cfgw'.lock = ""
      /\ "clock_skew_seconds" \in DOMAIN cfgw.body
      /\ cfgw.body.clock_skew_seconds.t = "num")
       => \A ts \in Timestamps :
            _apply_clock_skew(ts, CONFIG') = ts + cfgw.body.clock_skew_seconds.n]_vars

\* C28: the timeout a loop sleeps with after a funnel run is never shorter
\* than the minimum tick of 0.05 s.
C28_SleepAtLeastTick ==
  \A t \in LoopIds : sched.loop[t].pc = "wait" => sched.loop[t].wait >= 50

\* C25: while CONFIG.enable_capi is off, no entry is added to the log (the
\* scheduler is the only sender here).
C25_NothingSentWhileOff ==
  [][~GetFlag(CONFIG, "enable_capi") => EVENT_LOG' = EVENT_LOG]_vars

\* C29: every event id the tracker holds for the browser channel is the id of
\* a logged pixel outcome that was handed to the sender (not a dropped one).
C29_TrackedIdWasSent ==
  \A id \in DEDUP.pixel_ids :
    \E i \in 1..Len(EVENT_LOG) :
      /\ EVENT_LOG[i].channel = "pixel"
      /\ EVENT_LOG[i].event_id = id
      /\ EVENT_LOG[i].ok

\* C26: the items of a response of GET /api/events (while the log is the one
\* it was computed from) are entries of the log that pass every filter of the
\* query, newest first and at most 200, and a matching entry of the log that
\* is not among them is older than each of them, the response being full.
C26_QueryNewestMatching ==
  (http.op = "api_events" /\ http.at = now) =>
    LET items == http.items
        ch == http.args[1]
        ty == http.args[2]
        ok == http.args[3]
        InItems(e) == \E i \in 1..Len(items) : items[i] = e
    IN /\ Len(items) <= API_EVENTS_LIMIT
       /\ \A i \in 1..Len(items) :
            /\ \E j \in 1..Len(EVENT_LOG) : EVENT_LOG[j] = items[i]
            /\ ch # "" => items[i].channel = ch
            /\ ty # "" => items[i].event_name = ty
            /\ ok = "1" => items[i].ok
            /\ ok = "0" => ~items[i].ok
       /\ \A i \in 1..(Len(items) - 1) : items[i].ts > items[i + 1].ts
       /\ \A j \in 1..Len(EVENT_LOG) :
            (EventMatches(EVENT_LOG[j], ch, ty, ok) /\ ~InItems(EVENT_LOG[j]))
            => /\ Len(items) = API_EVENTS_LIMIT
               /\ \A i \in 1..Len(items) : EVENT_LOG[j].ts < items[i].ts
C26_Witness ==
  /\ http.op = "api_events" /\ http.at = now /\ http.args = <<"capi", "", "">>
  /\ Len(http.items) = API_EVENTS_LIMIT
  /\ Len(EVENT_LOG) = API_EVENTS_LIMIT + 2
  /\ EVENT_LOG[1].channel = "pixel" /\ EVENT_LOG[2].channel = "capi"
  /\ EVENT_LOG[2].event_name = "Purchase"
  /\ http.items[1] = EVENT_LOG[2]

\* The mapped event of the last answer of /ingest, and the session's natural
\* currency of the event that was posted.
Mapped == http.op = "ingest" /\ http.status = 200 /\ http.sent # << >>
NaturalCurrency(e) == Get(Get(e, "context", NoData), "currency", JText("USD"))
Resolved(cfg, cur) ==
  IF cfg.currency_override = "NULL" THEN JNull
  ELSE IF cfg.currency_override # "AUTO" THEN JText(cfg.currency_override)
  ELSE cur

\* C21: mapping never throws for malformed input: every event posted to
\* /ingest with a type the mapper knows is answered with a WireEvent.
C21_NeverThrows ==
  (http.op = "ingest" /\ CapiName(Get(http.e, "event_type", "")) # "")
    => (http.status = 200 /\ Len(http.sent) = 1)

\* C22 as stated: the currency of a mapped WireEvent is null under override
\* NULL, else the fixed code of the override, else the session's currency.
C22_ResolutionOrder ==
  (Mapped /\ "currency" \in DOMAIN http.sent[1].custom_data /\ ~CONFIG.null_currency)
    => http.sent[1].custom_data.currency = Resolved(CONFIG, NaturalCurrency(http.e))
\* C22, amended: the order holds while mismatch_currency does not target the
\* server channel; when it does, the currency is null if the session has one
\* and USD if it has none, whatever the override.
C22_ResolutionOrderUnlessMismatch ==
  (Mapped /\ "currency" \in DOMAIN http.sent[1].custom_data /\ ~CONFIG.null_currency)
    => http.sent[1].custom_data.currency =
         IF CONFIG.mismatch_currency # "CAPI"
         THEN Resolved(CONFIG, NaturalCurrency(http.e))
         ELSE IF PyTruthy(NaturalCurrency(http.e)) THEN JNull ELSE JText("USD")
C22_Witness ==
  /\ Mapped
  /\ CONFIG.currency_override = "EUR" /\ CONFIG.mismatch_currency = "PIXEL"
  /\ ~CONFIG.null_currency
  /\ NaturalCurrency(http.e) = JText("GBP")
  /\ http.sent[1].event_name = "Purchase"
  /\ http.sent[1].custom_data.currency = JText("EUR")

\* C23: null-injection wins: with null_currency set the currency of the
\* WireEvent is null under every override, and with null_price set its value
\* and every item_price of its contents are null.
C23_NullInjectionWins ==
  Mapped =>
    LET cd == http.sent[1].custom_data
    IN /\ (CONFIG.null_currency /\ "currency" \in DOMAIN cd) => cd.currency = JNull
       /\ (CONFIG.null_price /\ "value" \in DOMAIN cd) => cd.value = JNull
       /\ (CONFIG.null_price /\ "contents" \in DOMAIN cd)
            => \A i \in 1..Len(cd.contents) : cd.contents[i].item_price = JNull
C23_Witness ==
  /\ Mapped
  /\ CONFIG.currency_override = "EUR" /\ CONFIG.null_currency /\ CONFIG.null_price
  /\ http.sent[1].event_name = "Purchase"
  /\ http.sent[1].custom_data.currency = JNull
  /\ http.sent[1].custom_data.value = JNull
  /\ Len(http.sent[1].custom_data.contents) = 2
  /\ http.sent[1].custom_data.contents[2].item_price = JNull

\* C24: with the seed fixed and the configuration identical, two full runs
\* that each start on a freshly seeded generator choose the same product,
\* price and quantity and go through the same stages, whatever other request
\* draws from the generator in between.
C24_SeededRunsIdentical ==
  (/\ run.n = 2 /\ run.pc = "done"
   /\ run.fresh /\ run.last.fresh
   /\ run.cfg = run.last.cfg)
    => Outcome(run) = run.last.outcome

\* The request carries Basic credentials equal to the configured ones: the
\* prefix "Basic " and a payload that decodes to username:password.
CarriesCredentials(mw, h) ==
  /\ h.present /\ h.scheme = BasicPrefix /\ h.decodes
  /\ h.text = mw.username \o Colon \o mw.password
\* The path is an exempt entry or lies under an entry ending in "/*".
ExemptPath(mw, path) ==
  LET q == IF path = << >> THEN <<"/">> ELSE path
  IN \/ q \in mw.exempt_paths
     \/ \E p \in mw.exempt_paths :
          /\ Len(p) >= 2 /\ p[Len(p)] = "*" /\ p[Len(p) - 1] = "/"
          /\ Len(q) >= Len(p) - 1
          /\ \A i \in 1..(Len(p) - 1) : q[i] = p[i]

\* C40: with Basic Auth enabled the application is invoked only for an exempt
\* path or for a request carrying the configured credentials, and every other
\* request is answered 401 without reaching it; with auth disabled every
\* request is passed through.
C40_AuthGate ==
  http.op = "wsgi" =>
    /\ http.app =>
         \/ ~env.auth.enabled
         \/ ExemptPath(env.auth, http.path)
         \/ CarriesCredentials(env.auth, http.header)
    /\ ~http.app => http.status = 401
    /\ ~env.auth.enabled => http.app
C40_Witness ==
  /\ http.op = "wsgi" /\ http.prev = "wsgi"
  /\ env.auth.enabled /\ env.auth.exempt_paths = {<<"/", "a", "/", "*">>}
  /\ http.path = <<"/", "a", "b">>
  /\ http.header = Header(BasicPrefix, TRUE, <<"u", ":", "p", ":", "q">>)
  /\ env.auth.password = <<"p", ":", "q">>
  /\ http.app

Abs(x) == IF x < 0 THEN 0 - x ELSE x
Applied == px.n = 1 /\ px.intended.t = "num" /\ px.sent.t = "num"

\* C31 as stated: with fraction 0 the value sent equals the intended value
\* and the value the server channel gets; with a fraction f > 0 the value sent
\* is within value * f of the intended value.
C31_WithinFraction ==
  /\ (px.n = 1 /\ dom.mismatch_value_pct = 0)
       => (px.sent = px.intended /\ (dom.mirror_to_capi => px.mirror = px.intended))
  /\ (Applied /\ dom.mismatch_value_pct > 0)
       => 100 * Abs(px.sent.n - px.intended.n) <= px.intended.n * dom.mismatch_value_pct
\* C31, amended: the perturbed value is rounded to the cent, so it is within
\* value * f plus half a cent of the intended value.
C31_WithinFractionRounded ==
  /\ (px.n = 1 /\ dom.mismatch_value_pct = 0)
       => (px.sent = px.intended /\ (dom.mirror_to_capi => px.mirror = px.intended))
  /\ (Applied /\ dom.mismatch_value_pct > 0)
       => 100 * Abs(px.sent.n - px.intended.n) <= px.intended.n * dom.mismatch_value_pct + 50
C31_Witness ==
  /\ Applied /\ dom.mismatch_value_pct = 15 /\ dom.mirror_to_capi
  /\ px.intended = JNum(1999) /\ px.sent = JNum(2299)

\* A purchase payload repeats the begin_checkout payload of its run, whose
\* cart is the line the run added.
SameCheckout(line, bc, pu) ==
  (pu.sent /\ bc.sent) => (pu = bc /\ (line # NoLine => bc.cart = <<line>>))

\* C32: within one run the Purchase carries the cart, subtotal, shipping, tax
\* and total of the run's BeginCheckout, and that cart is the line added by
\* its AddToCart, in auto-stream runs and in scenario runs.
C32_PurchaseRepeatsCheckout ==
  /\ SameCheckout(run.line, run.bc, run.pu)
  /\ SameCheckout(sim.sc.line, sim.sc.bc, sim.sc.pu)

\* The economics of a payload under a threshold, options and a tax rate.
Economics(p, threshold, options, rate) ==
  p.sent =>
    /\ p.shipping \in (IF p.subtotal >= threshold THEN {0} ELSE options)
    /\ p.tax \in Rounded(rate * p.subtotal, 100)
    /\ p.total = p.subtotal + p.shipping + p.tax

\* C33: shipping is 0 from the free-shipping threshold on and otherwise one
\* of the shipping options, tax is the subtotal times the tax rate rounded to
\* the cent, and the total is their sum, in the server's runs and in the
\* script's.
C33_CheckoutEconomics ==
  /\ Economics(run.bc, run.cfg.free_shipping_threshold, Range(run.cfg.shipping_options),
               run.cfg.tax_rate)
  /\ Economics(sim.co, 7500, {499, 699, 999}, 8)

\* C37: a server-channel entry of the Event Log has ok = true, and its event id
\* is counted in capi_ids, only if the external sender was invoked and returned
\* success: no entry of a skipped send (enable_capi false or credentials
\* missing) is logged as ok.
SkippedSend(e) == e.channel = "capi" /\ "skipped" \in DOMAIN e.response
C37_SkippedNotSuccess ==
  \A i \in DOMAIN EVENT_LOG :
    SkippedSend(EVENT_LOG[i]) =>
      /\ ~EVENT_LOG[i].ok
      /\ EVENT_LOG[i].event_id \notin DEDUP.capi_ids

\* C38: the per-type kill switch holds on every server path: while a type is
\* killed, no server-channel event of that type is logged (sent to a sink) or
\* inserted into the Dedup Tracker, whether it comes from the auto stream,
\* /ingest, the scenario runner or /mirror/pixel.  (The configuration does
\* not change in SpecServer.)
KilledEntry(e) == e.channel # "pixel" /\ e.event_name \in CONFIG.kill_event_types
C38_KillSwitchHolds ==
  /\ \A i \in DOMAIN EVENT_LOG : ~KilledEntry(EVENT_LOG[i])
  /\ \A id \in DEDUP.capi_ids :
       \E i \in DOMAIN EVENT_LOG :
         EVENT_LOG[i].event_id = id /\ ~KilledEntry(EVENT_LOG[i])

\* C39: after any sequence of auto_config updates, updates of only the min
\* or only the max of a pair included, the stored ranges are ordered:
\* cost_pct_min <= cost_pct_max, pltv_min <= pltv_max, price_min <= price_max.
\* (Read when no update holds CONFIG_LOCK.)
C39_RangesOrdered ==
  CONFIG_LOCK_free =>
    \A p \in RangePairs : CONFIG[p[1]] <= CONFIG[p[2]]

\* C34: the margin of a cart is >= 0 and at most the sum over its lines of
\* price x quantity, and a line whose price is missing or invalid adds
\* nothing instead of raising.
LineWorth(c) == IF line_skipped(c) \/ c.item_price.t = "nan" THEN 0 ELSE c.item_price.n * line_qty(c)
LineWorthClamped(c) ==
  IF line_skipped(c) \/ c.item_price.t = "nan" THEN 0
  ELSE Max(0, c.item_price.n) * Max(0, line_qty(c))
RECURSIVE SumOver(_, _)
SumOver(Op(_), s) == IF s = << >> THEN 0 ELSE Op(Head(s)) + SumOver(Op, Tail(s))
Priced(c) == ~line_skipped(c)
Collapsed(kind) == CONFIG[kind \o "_max"] < CONFIG[kind \o "_min"]
C35_CollapsesToMin ==
  \A kind \in {"cost_pct", "pltv", "price"} :
    sim.pc = kind /\ Collapsed(kind) => sim.drawn = CONFIG[kind \o "_min"]

\* C36: the four schema toggles are independent and composable: for every
\* combination the mapping succeeds, the effect of each enabled toggle is in
\* the result (contents absent; remaining arrays empty; every numeric field
\* a string; the extra field present) and the effect of each disabled one is
\* not (the result is there as the mapping without schema toggles has it).
Plain(e) ==
  sim_event_to_capi(e, [k \in DOMAIN CONFIG |->
                          IF k \in SchemaToggles THEN FALSE ELSE CONFIG[k]])[1]
Arrays(cd) == DOMAIN cd \cap {"contents", "content_ids"}
NumTags(ev) ==
  {ev.event_time.t}
  \cup (IF "value" \in DOMAIN ev.custom_data THEN {ev.custom_data.value.t} ELSE {})
  \cup (IF "contents" \in DOMAIN ev.custom_data
        THEN UNION {{ev.custom_data.contents[i].quantity.t,
                     ev.custom_data.contents[i].item_price.t} :
                       i \in 1..Len(ev.custom_data.contents)}
        ELSE {})
C36_TogglesCompose ==
  (http.op = "ingest" /\ CapiName(Get(http.e, "event_type", "")) # "") =>
    /\ http.status = 200 /\ Len(http.sent) = 1
    /\ LET ev == http.sent[1]
           cd == ev.custom_data
           plain == Plain(http.e)
       IN /\ IF CONFIG.schema_remove_contents THEN "contents" \notin DOMAIN cd
             ELSE ("contents" \in DOMAIN cd) = ("contents" \in DOMAIN plain.custom_data)
          /\ IF CONFIG.schema_empty_arrays THEN \A k \in Arrays(cd) : cd[k] = << >>
             ELSE \A k \in Arrays(cd) : Len(cd[k]) = Len(plain.custom_data[k])
          /\ IF CONFIG.schema_str_numbers THEN "num" \notin NumTags(ev)
             ELSE "numstr" \notin NumTags(ev)
          /\ CONFIG.schema_unknown_fields = ("unknown_field_xyz" \in DOMAIN cd)

====
